---- MODULE Spec2Model ----
(***************************************************************************)
(* ClipSnap: the clipboard history store (src/src/database.rs), the        *)
(* clipboard monitor (src/src/clipboard.rs), the image pipeline            *)
(* (src/src/screenshot.rs) and the startup sequence (src/src/main.rs).     *)
(*                                                                         *)
(* Seven specifications:                                                   *)
(*   StoreSpec    drives the public methods of Database with inputs from   *)
(*                small sets, the way the unit tests of database.rs do.    *)
(*   CaptureSpec  calls capture_region with arguments and displays from    *)
(*                small sets.                                              *)
(*   SchemaSpec   runs INSERT statements of any shape against the table    *)
(*                and its CHECK constraint.                                *)
(*   ImageSpec    calls bgra_to_rgba, encode_png and create_thumbnail with *)
(*                buffers, dimensions and sizes from small sets.           *)
(*   SearchSpec   runs search_text on stores filled to around its LIMIT.   *)
(*   Spec         the running program seen from the monitor: startup       *)
(*                maintenance, the polling loop, the system clipboard as   *)
(*                environment, process exit and restart over the persisted *)
(*                store.                                                   *)
(*   AppSpec      the threads side by side: the monitor, the GTK main loop *)
(*                with capture, restore and the history list, the clear    *)
(*                thread, and the two mutexes they share.                  *)
(*                                                                         *)
(* Option<T> is modelled as a sequence: None is <<>>, Some(x) is <<x>>.    *)
(* A SQL NULL is None.  Text is a sequence of one-character strings, a     *)
(* blob is a sequence of byte values.                                      *)
(***************************************************************************)
EXTENDS Integers, Sequences, FiniteSets, TLC

VARIABLES
    rows,             \* clipboard_history: the set of rows of the table
    seq,              \* sqlite_sequence: largest id AUTOINCREMENT ever assigned
    now,              \* chrono::Utc::now().timestamp(), the wall clock
    call,             \* the last Database method call: arguments, result, rows before
    main_pc,          \* main(): "start" before the monitor is spawned, "running" after
    config,           \* config.history, read at startup
    pc,               \* monitor_clipboard: position in the loop body
    last_text_hash,   \* Arc<Mutex<Option<u64>>>
    last_image_hash,  \* Arc<Mutex<Option<u64>>>
    no_change_count,  \* u32 local of monitor_clipboard
    changed,          \* bool local of monitor_clipboard
    textRun,          \* history: the run of consecutive cycles reading one text
    imageRun,         \* history: the run of consecutive cycles reading one image
    textWrite,        \* history: insert_text in the last text check: none/ok/failed
    imageWrite,       \* history: insert_image in the last image check: none/ok/failed/noencode
    db_open,          \* main(): Database::new returned Ok in this run of the process
    poll_interval,    \* local of monitor_clipboard's loop body, 0 outside a cycle
    firstRead,        \* history: which channels have read non-empty content in this run
    capture,          \* the last capture_region call: arguments, display, result
                      \* (in AppSpec the locals of the capture closure)
    cb_lock,          \* Arc<Mutex<Clipboard>>: the thread holding it, or "none"
    db_lock,          \* Arc<Mutex<Database>>: the thread holding it, or "none"
    ui_pc,            \* the GTK main loop thread: idle, or its place in a handler
    worker_pc,        \* the thread spawned by the clear button: idle when there is none
    txn,              \* per inserting thread, the id of its INSERT in progress, or 0
    uiWrite,          \* history: insert_image of the last capture: none/ok/failed,
                      \* dropped when the next handler of the UI starts
    pipe,             \* the last encode_png or create_thumbnail call: arguments, result
    attempt           \* history: the last capture or restore of the UI: steps, notifications,
                      \* dropped when the next handler of the UI starts

storeVars == <<rows, seq, now, call>>
progVars == <<main_pc, config, pc, last_text_hash, last_image_hash, no_change_count,
              changed, textRun, imageRun, textWrite, imageWrite, db_open, poll_interval,
              firstRead>>
vars == <<rows, seq, now, call, main_pc, config, pc, last_text_hash, last_image_hash,
          no_change_count, changed, textRun, imageRun, textWrite, imageWrite, db_open,
          poll_interval, firstRead, capture, cb_lock, db_lock, ui_pc, worker_pc, txn,
          uiWrite, pipe, attempt>>
appVars == <<cb_lock, db_lock, ui_pc, worker_pc, txn, uiWrite, attempt>>

----------------------------------------------------------------------------
(* Bounds *)

\* ids handed out by AUTOINCREMENT before the running program stops inserting
MaxId == 3

\* ids handed out by AUTOINCREMENT before StoreSpec stops inserting
MaxApiId == 2

\* the range of the model's dedup digest (the code's is u64)
HashSpace == 4

\* where the model's no-change counter saturates (the code's is u32)
NoChangeMax == 6

\* the width in pixels of the model's larger display
ScreenMax == 3

\* ids handed out before the store of AppSpec stops taking rows
MaxAppId == 2

----------------------------------------------------------------------------
(* Option, sequences *)

None == <<>>

Some(x) == <<x>>

Min(a, b) == IF a <= b THEN a ELSE b

Max(a, b) == IF a >= b THEN a ELSE b

Abs(a) == IF a >= 0 THEN a ELSE 0 - a

RECURSIVE SumSeq(_)
SumSeq(s) == IF s = <<>> THEN 0 ELSE Head(s) + SumSeq(Tail(s))

\* q occurs in s as a contiguous subsequence
Contains(s, q) ==
    \E i \in 0..(Len(s) - Len(q)) : SubSeq(s, i + 1, i + Len(q)) = q

----------------------------------------------------------------------------
(* models/history_entry.rs *)

ContentTypes == {"image", "text"}

\* ContentType::to_str
to_str(ct) == IF ct = "image" THEN "image" ELSE "text"


\* ContentType::from_str(..).unwrap_or(ContentType::Text), as the row mappers use it
from_str_or_text(s) == IF s = "image" THEN "image" ELSE "text"

\* HistoryEntry, built from a row by the closures of the three query methods
HistoryEntry(r) ==
    [id           |-> r.id,
     content_type |-> from_str_or_text(r.content_type),
     image_data   |-> r.content_data,
     text_content |-> r.text_content,
     thumbnail    |-> r.thumbnail,
     created_at   |-> r.created_at,
     file_size    |-> IF r.file_size = None THEN 0 ELSE r.file_size[1]]

----------------------------------------------------------------------------
(* database.rs: the table and its statements *)

SecondsPerDay == 86400

SearchLimit == 50

\* the values the wall clock takes in the model: whole days since some origin
Times == {0, SecondsPerDay}

\* a CHECK that looks at content_type only
CheckTypeOnly(r) == r.content_type \in {"image", "text"}

\* the CHECK constraint of clipboard_history
CheckConstraint(r) ==
    \/ (r.content_type = "image" /\ r.content_data # None)
    \/ (r.content_type = "text" /\ r.text_content # None)

\* the row insert_image's INSERT statement builds
ImageRow(id, png_bytes, thumbnail, t) ==
    [id           |-> id,
     content_type |-> "image",
     content_data |-> Some(png_bytes),
     text_content |-> None,
     thumbnail    |-> Some(thumbnail),
     created_at   |-> t,
     file_size    |-> Some(Len(png_bytes))]

\* a text row that also fills the blob column
TextRowWithBlob(id, text, t) ==
    [id           |-> id,
     content_type |-> "text",
     content_data |-> Some(<<>>),
     text_content |-> Some(text),
     thumbnail    |-> None,
     created_at   |-> t,
     file_size    |-> Some(Len(text))]

\* the row insert_text's INSERT statement builds
TextRow(id, text, t) ==
    [id           |-> id,
     content_type |-> "text",
     content_data |-> None,
     text_content |-> Some(text),
     thumbnail    |-> None,
     created_at   |-> t,
     file_size    |-> Some(Len(text))]

\* INSERT into a table whose id is a plain INTEGER PRIMARY KEY: the new id is
\* one more than the largest id in the table, so a deleted id comes back
InsertReusingRowid(R, s, r, io) ==
    LET top == IF R = {} THEN 0 ELSE CHOOSE m \in {q.id : q \in R} : \A q \in R : q.id <= m
    IN  IF io /\ CheckConstraint(r)
        THEN [rows |-> R \cup {[r EXCEPT !.id = top + 1]}, seq |-> top + 1,
              ok |-> TRUE, id |-> top + 1]
        ELSE [rows |-> R, seq |-> s, ok |-> FALSE, id |-> 0]

\* INSERT of row r: AUTOINCREMENT id s + 1; io is whether SQLite could write
Insert(R, s, r, io) ==
    IF io /\ CheckConstraint(r)
    THEN [rows |-> R \cup {r}, seq |-> s + 1, ok |-> TRUE, id |-> s + 1]
    ELSE [rows |-> R, seq |-> s, ok |-> FALSE, id |-> 0]

\* insert_image as a store that keeps one row per PNG would do it
insert_image_unique(R, s, t, png_bytes, thumbnail, io) ==
    IF \E r \in R : r.content_data = Some(png_bytes)
    THEN [rows |-> R, seq |-> s, ok |-> io,
          id |-> IF io THEN (CHOOSE r \in R : r.content_data = Some(png_bytes)).id
                 ELSE 0]
    ELSE Insert(R, s, ImageRow(s + 1, png_bytes, thumbnail, t), io)

insert_image(R, s, t, png_bytes, thumbnail, io) ==
    Insert(R, s, ImageRow(s + 1, png_bytes, thumbnail, t), io)

\* insert_text that evicts on insert: only the two newest ids are kept
insert_text_evicting(R, s, t, text, io) ==
    LET o == Insert(R, s, TextRow(s + 1, text, t), io)
    IN  [o EXCEPT !.rows = {r \in o.rows : r.id + 2 > o.seq}]

\* insert_text as a store that keeps one row per text would do it
insert_text_unique(R, s, t, text, io) ==
    IF \E r \in R : r.text_content = Some(text)
    THEN [rows |-> R, seq |-> s, ok |-> io,
          id |-> IF io THEN (CHOOSE r \in R : r.text_content = Some(text)).id ELSE 0]
    ELSE Insert(R, s, TextRow(s + 1, text, t), io)

insert_text(R, s, t, text, io) ==
    Insert(R, s, TextRow(s + 1, text, t), io)

\* ORDER BY created_at DESC: every enumeration of S in which created_at never
\* increases (a row of the greatest created_at first, then the rest in that
\* order).  SQL leaves the order of rows with equal created_at open.
RECURSIVE OrderByCreatedAtDesc(_)
OrderByCreatedAtDesc(S) ==
    IF S = {} THEN {<<>>}
    ELSE UNION {{<<r>> \o s : s \in OrderByCreatedAtDesc(S \ {r})}
                  : r \in {m \in S : \A q \in S : q.created_at <= m.created_at}}

\* LIMIT n (n >= 0)
Limit(s, n) == SubSeq(s, 1, Min(n, Len(s)))

\* the row mapper applied to a result set
MapEntries(s) == [i \in 1..Len(s) |-> HistoryEntry(s[i])]

\* get_recent_entries_by_type without its WHERE clause
get_recent_entries_any_type(R, limit, content_type) ==
    {MapEntries(Limit(s, limit)) : s \in OrderByCreatedAtDesc(R)}

\* the possible results of get_recent_entries_by_type
get_recent_entries_by_type(R, limit, content_type) ==
    LET match == {r \in R : r.content_type = to_str(content_type)}
    IN  {MapEntries(Limit(s, limit)) : s \in OrderByCreatedAtDesc(match)}

\* get_entry that returns the row of the highest id, whatever id is asked for
get_entry_last(R, id) ==
    IF R = {} THEN None
    ELSE Some(HistoryEntry(CHOOSE r \in R : \A q \in R : q.id <= r.id))

\* get_entry: WHERE id = ?1, then entries.pop()
get_entry(R, id) ==
    LET match == {r \in R : r.id = id}
    IN  IF match = {} THEN None ELSE Some(HistoryEntry(CHOOSE r \in match : TRUE))

\* ASCII case folding, as SQLite's LIKE applies it
Lower(c) == IF c = "A" THEN "a" ELSE IF c = "B" THEN "b" ELSE c

\* SQLite's LIKE: % matches any sequence, _ any one character, letters
\* compare without case
RECURSIVE Like(_, _)
Like(p, s) ==
    IF p = <<>> THEN s = <<>>
    ELSE IF Head(p) = "%"
         THEN Like(Tail(p), s) \/ (s # <<>> /\ Like(p, Tail(s)))
         ELSE /\ s # <<>>
              /\ (Head(p) = "_" \/ Lower(Head(p)) = Lower(Head(s)))
              /\ Like(Tail(p), Tail(s))

\* format!("%{}%", query)
Pattern(query) == <<"%">> \o query \o <<"%">>

\* WHERE text_content LIKE ?1 (NULL LIKE .. is not true)
SearchMatches(R, query) ==
    {r \in R : r.text_content # None /\ Like(Pattern(query), r.text_content[1])}

\* search_text without its LIMIT
search_text_unlimited(R, query) ==
    {MapEntries(s) : s \in OrderByCreatedAtDesc(SearchMatches(R, query))}

\* the possible results of search_text
search_text(R, query) ==
    {MapEntries(Limit(s, SearchLimit)) : s \in OrderByCreatedAtDesc(SearchMatches(R, query))}

\* delete_entry that takes the rows of lower ids along
delete_entry_and_older(R, id) == {r \in R : r.id > id}

\* delete_entry: DELETE .. WHERE id = ?1
delete_entry(R, id) == {r \in R : r.id # id}

\* cleanup_old_entries that keeps the old rows and drops their thumbnails
cleanup_old_entries_strip(R, t, days) ==
    LET cutoff == t - (days * SecondsPerDay)
        old    == {r \in R : r.created_at < cutoff}
    IN  [rows  |-> (R \ old) \cup {[r EXCEPT !.thumbnail = None] : r \in old},
         count |-> Cardinality(old)]

\* cleanup_old_entries with the cutoff itself deleted too
cleanup_old_entries_inclusive(R, t, days) ==
    LET cutoff == t - (days * SecondsPerDay)
        gone   == {r \in R : r.created_at <= cutoff}
    IN  [rows |-> R \ gone, count |-> Cardinality(gone)]

\* cleanup_old_entries: the rows left and the count returned
cleanup_old_entries(R, t, days) ==
    LET cutoff == t - (days * SecondsPerDay)
        gone   == {r \in R : r.created_at < cutoff}
    IN  [rows |-> R \ gone, count |-> Cardinality(gone)]

\* clear_history that ignores the type it is given
clear_history_all(R, content_type) ==
    [rows |-> {}, count |-> Cardinality(R)]

\* clear_history: content_type is an Option<ContentType>
clear_history(R, content_type) ==
    LET gone == IF content_type = None
                THEN R
                ELSE {r \in R : r.content_type = to_str(content_type[1])}
    IN  [rows |-> R \ gone, count |-> Cardinality(gone)]

\* enforce_max_entries keeping the rows with the highest ids (ORDER BY id DESC)
enforce_max_entries_by_id(R, max) ==
    {{r \in R : Cardinality({q \in R : q.id > r.id}) < max}}

\* enforce_max_entries that keeps one row less than max
enforce_max_entries_below(R, max) ==
    {LET kept == Limit(s, max - 1)
     IN  {r \in R : \E i \in 1..Len(kept) : kept[i].id = r.id}
       : s \in OrderByCreatedAtDesc(R)}

\* enforce_max_entries: the possible sets of rows left
enforce_max_entries(R, max) ==
    {LET kept == Limit(s, max)
     IN  {r \in R : \E i \in 1..Len(kept) : kept[i].id = r.id}
       : s \in OrderByCreatedAtDesc(R)}

----------------------------------------------------------------------------
(* screenshot.rs: the image pipeline *)

\* `v as i16` and `v as u16`
AsI16(v) == ((v + 32768) % 65536) - 32768

AsU16(v) == v % 65536

\* the display: byte c (0 blue, 1 green, 2 red, 3 padding) of the pixel at
\* (px, py) of the root window, as the X server sends it
ScreenByte(px, py, c) == IF c = 3 THEN 0 ELSE ((7 * Abs(px)) + (3 * Abs(py)) + c) % 256

\* the data of a GetImage reply in Z_PIXMAP format: 4 bytes a pixel, row by row
GetImageData(x, y, w, h) ==
    [i \in 1..(w * h * 4) |->
        LET p == (i - 1) \div 4
        IN  ScreenByte(x + (p % w), y + (p \div w), (i - 1) % 4)]

\* lines 61-63: byte 3 of every complete 4-byte chunk set to 255
SetAlpha(data) ==
    [i \in 1..Len(data) |->
        IF (i - 1) % 4 = 3 /\ i <= 4 * (Len(data) \div 4) THEN 255 ELSE data[i]]

\* what the X connection can do: all fine, no connection, the request not
\* sent, an error reply
X11Outcomes == {"ok", "noconnect", "norequest", "noreply"}

\* the origin test that lets the column and the row just past the display in
OutsideScreenExclusive(x, y, screen_width, screen_height) ==
    x < 0 \/ y < 0 \/ x > screen_width \/ y > screen_height

\* line 24
OutsideScreen(x, y, screen_width, screen_height) ==
    x < 0 \/ y < 0 \/ x >= screen_width \/ y >= screen_height

\* the requested size passed on as it is
Unclamped(size, screen_size, origin) == size

\* lines 32-33: std::cmp::min(w, (screen_width - x) as u32)
Clamp(size, screen_size, origin) == Min(size, screen_size - origin)

CaptureError(connected) ==
    [ok |-> FALSE, data |-> <<>>, width |-> 0, height |-> 0,
     connected |-> connected, get_image |-> FALSE]

\* capture_region on a display of screen_width x screen_height pixels, with
\* x11 what the X connection does.  get_image says whether a GetImage request
\* was made, that is whether pixels were asked for.
capture_region(x, y, w, h, screen_width, screen_height, x11) ==
    IF w = 0 \/ h = 0 THEN CaptureError(FALSE)
    ELSE IF x11 = "noconnect" THEN CaptureError(FALSE)
    ELSE IF OutsideScreen(x, y, screen_width, screen_height) THEN CaptureError(TRUE)
    ELSE LET actual_w == Clamp(w, screen_width, x)
             actual_h == Clamp(h, screen_height, y)
         IN  IF x11 # "ok"
             THEN [CaptureError(TRUE) EXCEPT !.get_image = TRUE]
             ELSE [ok |-> TRUE,
                   data |-> SetAlpha(GetImageData(AsI16(x), AsI16(y),
                                                  AsU16(actual_w), AsU16(actual_h))),
                   width |-> actual_w, height |-> actual_h,
                   connected |-> TRUE, get_image |-> TRUE]

\* a conversion that reverses each complete 4-byte chunk: (b, g, r, a) to
\* (a, r, g, b)
bgra_to_argb(bgra) ==
    [i \in 1..(4 * (Len(bgra) \div 4)) |->
        LET c == (i - 1) % 4
        IN  bgra[(i - c) + (3 - c)]]

\* bgra_to_rgba: bytes 0 and 2 of every complete 4-byte chunk swapped, an
\* incomplete last chunk dropped
bgra_to_rgba(bgra) ==
    [i \in 1..(4 * (Len(bgra) \div 4)) |->
        LET c == (i - 1) % 4
        IN  bgra[(i - c) + (CASE c = 0 -> 2 [] c = 1 -> 1 [] c = 2 -> 0 [] c = 3 -> 3)]]

PngMagic == 137

ThumbnailSize == 150

\* encode_png that takes a buffer of any length and pads or cuts it
encode_png_any_length(rgba_pixels, width, height) ==
    Some(<<PngMagic, width, height>> \o
         [i \in 1..(width * height * 4) |->
             IF i <= Len(rgba_pixels) THEN rgba_pixels[i] ELSE 0])

\* encode_png: ImageBuffer::from_raw gives None when the buffer is shorter than
\* width * height * 4; the container keeps the dimensions and the pixels
encode_png(rgba_pixels, width, height) ==
    IF Len(rgba_pixels) < width * height * 4
    THEN None
    ELSE Some(<<PngMagic, width, height>> \o SubSeq(rgba_pixels, 1, width * height * 4))

\* image::load_from_memory: the model's container decodes when it has the
\* magic, both dimensions and all the pixels
Decodable(bytes) ==
    /\ Len(bytes) >= 3
    /\ bytes[1] = PngMagic
    /\ Len(bytes) = 3 + bytes[2] * bytes[3] * 4

\* resize_exact: both sides become max, whatever the ratio
ResizeExact(w, h, max) == <<max, max>>

\* the dimensions img.resize(max, max, _) scales w x h to: the larger side
\* becomes max, the other keeps the ratio (rounded, at least 1)
ResizeDimensions(w, h, max) ==
    IF w >= h
    THEN <<max, Max(((2 * h * max) + w) \div (2 * w), 1)>>
    ELSE <<Max(((2 * w * max) + h) \div (2 * h), 1), max>>

\* create_thumbnail: the thumbnail's container; its resampled pixels are not
\* modelled
create_thumbnail(png_bytes, max_size) ==
    IF Decodable(png_bytes) /\ png_bytes[2] > 0 /\ png_bytes[3] > 0
    THEN LET d == ResizeDimensions(png_bytes[2], png_bytes[3], max_size)
         IN  Some(<<PngMagic, d[1], d[2]>>)
    ELSE None

\* Result::unwrap_or_default on a Vec<u8>
unwrap_or_default(r) == IF r = None THEN <<>> ELSE r[1]

----------------------------------------------------------------------------
(* clipboard.rs: the monitor *)

\* the byte of an ASCII character
Code(c) ==
    CASE c = "a" -> 97
      [] c = "b" -> 98
      [] c = "A" -> 65
      [] c = "_" -> 95
      [] c = "%" -> 37

\* str::as_bytes
as_bytes(text) == [i \in 1..Len(text) |-> Code(text[i])]

\* calculate_hash: a digest of the bytes alone.  The code's DefaultHasher gives
\* a u64; the model's digest has HashSpace values, so it collides sooner.
calculate_hash(data) == (SumSeq(data) + Len(data)) % HashSpace

\* what cb.get_text() can return: Err, or Ok of a text (possibly empty)
ClipTexts == {None, Some(<<>>), Some(<<"a">>), Some(<<"b">>)}

\* what cb.get_image() can return: Err, or Ok of an ImageData.  The last one
\* carries fewer bytes than its dimensions ask for.
ClipImages ==
    {None,
     Some([width |-> 0, height |-> 0, bytes |-> <<>>]),
     Some([width |-> 1, height |-> 1, bytes |-> <<1, 2, 3, 4>>]),
     Some([width |-> 2, height |-> 1, bytes |-> <<9, 9, 9, 8>>])}

\* content counted as new only when a different content was seen before it
is_new_after_another(last, hash) == last # None /\ last # Some(hash)

\* a check that takes every content for new
is_new_always(last, hash) == TRUE

\* lines 73-76 and 93-96: *last != Some(hash)
is_new(last, hash) == last # Some(hash)

\* the text slot set only when the insert succeeded
TextHashAfterOnSuccess(last, hash, ok) == IF ok THEN Some(hash) ELSE last

\* the image slot set only when the insert succeeded
ImageHashAfterOnSuccess(last, hash, ok) == IF ok THEN Some(hash) ELSE last

\* line 84: the text slot after a cycle that found new text
TextHashAfter(last, hash, ok) == Some(hash)

\* line 110: the image slot after a cycle that found a new image
ImageHashAfter(last, hash, ok) == Some(hash)

IdleThreshold == 5

IdleInterval == 1000

BaseInterval == 750

\* the interval that goes idle one cycle early
PollIntervalAtThreshold(count) ==
    IF count >= IdleThreshold THEN IdleInterval ELSE BaseInterval

\* lines 52-56: milliseconds to sleep before the cycle
PollInterval(count) ==
    IF count > IdleThreshold THEN IdleInterval ELSE BaseInterval

\* a monitor that gives up when the clipboard mutex is poisoned
OnLockErrorReturn == "exited"

\* lines 61-64: the clipboard mutex is poisoned: log, continue (sleep again)
OnLockError == "sleep"

\* lines 116-120; the model's counter saturates at NoChangeMax
NextNoChange(count, wasChanged) ==
    IF wasChanged THEN 0 ELSE Min(count + 1, NoChangeMax)

\* history: the run of consecutive cycles that read the same content; new says
\* whether the run's first cycle found the content's hash different from the
\* slot, calls counts the inserts attempted in the run, len is 1 for the first
\* cycle and 2 from the second on
NoRun == [content |-> None, new |-> FALSE, calls |-> 0, len |-> 0]

RunAfter(run, content, isNew, called) ==
    IF run.content = Some(content)
    THEN [run EXCEPT !.calls = @ + (IF called THEN 1 ELSE 0), !.len = 2]
    ELSE [content |-> Some(content), new |-> isNew,
          calls |-> IF called THEN 1 ELSE 0, len |-> 1]

\* history: seen says whether the channel has read non-empty content since
\* the process started; now names the channel whose check, the last one made,
\* read its first non-empty content ("none" when it was not a first)
NoRead == [text |-> FALSE, image |-> FALSE, now |-> "none"]

ReadAfter(fr, channel, nonEmpty) ==
    [fr EXCEPT ![channel] = @ \/ nonEmpty,
               !.now = IF nonEmpty /\ ~fr[channel] THEN channel ELSE "none"]

----------------------------------------------------------------------------
(* main.rs: startup *)

\* main() that goes on without a store
AfterOpenIgnoringError(opened) == "running"

\* line 36: Database::new(..).expect(..) panics on Err, and the process ends
\* before the monitor thread is spawned
AfterOpen(opened) == IF opened THEN "running" ELSE "panicked"

----------------------------------------------------------------------------
(* StoreSpec: the methods of Database called with inputs from small sets *)

\* no INSERT in progress
NoTxn == [monitor |-> 0, ui |-> 0]

\* no capture_region call yet
\* no capture and no restore yet
NoAttempt ==
    [op |-> "none", done |-> FALSE, captured |-> FALSE, written |-> FALSE,
     notes |-> <<>>]

\* no encode_png or create_thumbnail call yet
NoPipe ==
    [op |-> "none", bytes |-> <<>>, width |-> 0, height |-> 0, max_size |-> 0,
     result |-> None]

NoCapture ==
    [x |-> 0, y |-> 0, w |-> 0, h |-> 0, screen_width |-> 0, screen_height |-> 0,
     called |-> FALSE, result |-> CaptureError(FALSE)]

Texts == {<<"a">>, <<"A", "b">>}

Queries == {<<"a">>, <<"b">>, <<"_">>, <<"%">>, <<"a", "a">>}

Blobs == {<<137, 80>>}

Thumbs == {<<1>>}

Days == {0, 1}

\* a Database method call: the arguments it took (those it does not take are
\* empty or 0), whether it returned Ok, what it returned (count is the number
\* of rows the statement deleted), the rows before it and the clock it read
Call(op, text, n, ct, png, thumb, ok, id, count, entries) ==
    [op |-> op, text |-> text, n |-> n, ct |-> ct, png |-> png, thumb |-> thumb,
     ok |-> ok, id |-> id, count |-> count, entries |-> entries,
     before |-> rows, at |-> now]

NoCall ==
    [op |-> "none", text |-> <<>>, n |-> 0, ct |-> None, png |-> <<>>, thumb |-> <<>>,
     ok |-> TRUE, id |-> 0, count |-> 0, entries |-> <<>>, before |-> {}, at |-> 0]

\* a statement that fails (I/O error, busy timeout) changes nothing
Failed(op, text, n, ct, png, thumb) ==
    /\ call' = Call(op, text, n, ct, png, thumb, FALSE, 0, 0, <<>>)
    /\ UNCHANGED <<rows, seq>>

ProgUnchanged ==
    UNCHANGED <<main_pc, config, pc, last_text_hash, last_image_hash, no_change_count,
                changed, textRun, imageRun, textWrite, imageWrite, db_open,
                poll_interval, firstRead, capture, pipe, appVars>>

StoreInit ==
    /\ rows = {}
    /\ seq = 0
    /\ now \in Times
    /\ call = NoCall
    /\ main_pc = "api"
    /\ config = [auto_cleanup |-> FALSE, retention_days |-> 0, max_entries |-> 0]
    /\ pc = "sleep"
    /\ last_text_hash = None
    /\ last_image_hash = None
    /\ no_change_count = 0
    /\ changed = FALSE
    /\ textRun = NoRun
    /\ imageRun = NoRun
    /\ textWrite = "none"
    /\ imageWrite = "none"
    /\ db_open = TRUE
    /\ poll_interval = 0
    /\ firstRead = NoRead
    /\ capture = NoCapture
    /\ pipe = NoPipe
    /\ cb_lock = "none"
    /\ db_lock = "none"
    /\ ui_pc = "idle"
    /\ worker_pc = "idle"
    /\ txn = NoTxn
    /\ uiWrite = "none"
    /\ attempt = NoAttempt

\* the wall clock moves (it is not monotonic: it can be set back)
Tick ==
    /\ \E t \in Times \ {now} : now' = t
    /\ UNCHANGED <<rows, seq, call>>
    /\ ProgUnchanged

ApiInsertText ==
    /\ seq < MaxApiId
    /\ \E text \in Texts, io \in BOOLEAN :
          LET o == insert_text(rows, seq, now, text, io)
          IN  /\ rows' = o.rows
              /\ seq' = o.seq
              /\ call' = Call("insert_text", text, 0, None, <<>>, <<>>,
                              o.ok, o.id, 0, <<>>)
    /\ UNCHANGED now
    /\ ProgUnchanged

ApiInsertImage ==
    /\ seq < MaxApiId
    /\ \E png \in Blobs, thumb \in Thumbs, io \in BOOLEAN :
          LET o == insert_image(rows, seq, now, png, thumb, io)
          IN  /\ rows' = o.rows
              /\ seq' = o.seq
              /\ call' = Call("insert_image", <<>>, 0, None, png, thumb,
                              o.ok, o.id, 0, <<>>)
    /\ UNCHANGED now
    /\ ProgUnchanged

ApiGetRecent ==
    /\ \E limit \in 0..MaxApiId, ct \in ContentTypes :
          \/ \E es \in get_recent_entries_by_type(rows, limit, ct) :
                call' = Call("get_recent_entries_by_type", <<>>, limit, Some(ct),
                             <<>>, <<>>, TRUE, 0, 0, es)
          \/ call' = Call("get_recent_entries_by_type", <<>>, limit, Some(ct),
                          <<>>, <<>>, FALSE, 0, 0, <<>>)
    /\ UNCHANGED <<rows, seq, now>>
    /\ ProgUnchanged

ApiGetEntry ==
    /\ \E id \in 1..MaxApiId :
          call' = Call("get_entry", <<>>, id, None, <<>>, <<>>, TRUE, 0, 0,
                       get_entry(rows, id))
    /\ UNCHANGED <<rows, seq, now>>
    /\ ProgUnchanged

ApiSearchText ==
    /\ \E q \in Queries :
          \/ \E es \in search_text(rows, q) :
                call' = Call("search_text", q, 0, None, <<>>, <<>>, TRUE, 0, 0, es)
          \/ call' = Call("search_text", q, 0, None, <<>>, <<>>, FALSE, 0, 0, <<>>)
    /\ UNCHANGED <<rows, seq, now>>
    /\ ProgUnchanged

ApiDeleteEntry ==
    /\ \E id \in 1..MaxApiId :
          \/ /\ rows' = delete_entry(rows, id)
             /\ call' = Call("delete_entry", <<>>, id, None, <<>>, <<>>, TRUE, 0,
                             Cardinality(rows) - Cardinality(delete_entry(rows, id)),
                             <<>>)
             /\ UNCHANGED seq
          \/ Failed("delete_entry", <<>>, id, None, <<>>, <<>>)
    /\ UNCHANGED now
    /\ ProgUnchanged

ApiCleanup ==
    /\ \E days \in Days :
          \/ LET o == cleanup_old_entries(rows, now, days)
             IN  /\ rows' = o.rows
                 /\ call' = Call("cleanup_old_entries", <<>>, days, None, <<>>, <<>>,
                                 TRUE, 0, o.count, <<>>)
                 /\ UNCHANGED seq
          \/ Failed("cleanup_old_entries", <<>>, days, None, <<>>, <<>>)
    /\ UNCHANGED now
    /\ ProgUnchanged

ApiClearHistory ==
    /\ \E ct \in {None} \cup {Some(c) : c \in ContentTypes} :
          \/ LET o == clear_history(rows, ct)
             IN  /\ rows' = o.rows
                 /\ call' = Call("clear_history", <<>>, 0, ct, <<>>, <<>>,
                                 TRUE, 0, o.count, <<>>)
                 /\ UNCHANGED seq
          \/ Failed("clear_history", <<>>, 0, ct, <<>>, <<>>)
    /\ UNCHANGED now
    /\ ProgUnchanged

ApiEnforceMax ==
    /\ \E max \in 0..MaxApiId :
          \/ \E left \in enforce_max_entries(rows, max) :
                /\ rows' = left
                /\ call' = Call("enforce_max_entries", <<>>, max, None, <<>>, <<>>,
                                TRUE, 0, Cardinality(rows) - Cardinality(left), <<>>)
                /\ UNCHANGED seq
          \/ Failed("enforce_max_entries", <<>>, max, None, <<>>, <<>>)
    /\ UNCHANGED now
    /\ ProgUnchanged

StoreNext ==
    \/ Tick
    \/ ApiInsertText
    \/ ApiInsertImage
    \/ ApiGetRecent
    \/ ApiGetEntry
    \/ ApiSearchText
    \/ ApiDeleteEntry
    \/ ApiCleanup
    \/ ApiClearHistory
    \/ ApiEnforceMax

StoreSpec == StoreInit /\ [][StoreNext]_vars

----------------------------------------------------------------------------
(* CaptureSpec: capture_region called with arguments and displays from small
   sets *)

\* the displays: width and height in pixels
Screens == {<<ScreenMax, ScreenMax - 1>>, <<1, 1>>}

\* origins from just left of (above) the display to just past it
Origins == (0 - 1)..(ScreenMax + 1)

\* requested sizes from nothing to more than the display has
Sizes == 0..(ScreenMax + 1)

CaptureInit ==
    /\ rows = {}
    /\ seq = 0
    /\ now = 0
    /\ call = NoCall
    /\ main_pc = "capture"
    /\ config = [auto_cleanup |-> FALSE, retention_days |-> 0, max_entries |-> 0]
    /\ pc = "sleep"
    /\ last_text_hash = None
    /\ last_image_hash = None
    /\ no_change_count = 0
    /\ changed = FALSE
    /\ textRun = NoRun
    /\ imageRun = NoRun
    /\ textWrite = "none"
    /\ imageWrite = "none"
    /\ db_open = FALSE
    /\ poll_interval = 0
    /\ firstRead = NoRead
    /\ capture = NoCapture
    /\ pipe = NoPipe
    /\ cb_lock = "none"
    /\ db_lock = "none"
    /\ ui_pc = "idle"
    /\ worker_pc = "idle"
    /\ txn = NoTxn
    /\ uiWrite = "none"
    /\ attempt = NoAttempt

\* one call of capture_region.  The function keeps nothing from one call to
\* the next (it opens its own X11 connection each time), so the calls are
\* all made from the initial state.
CaptureRegion ==
    /\ ~capture.called
    /\ \E x, y \in Origins, w, h \in Sizes, screen \in Screens, x11 \in X11Outcomes :
          capture' = [x |-> x, y |-> y, w |-> w, h |-> h,
                      screen_width |-> screen[1], screen_height |-> screen[2],
                      called |-> TRUE,
                      result |-> capture_region(x, y, w, h, screen[1], screen[2], x11)]
    /\ UNCHANGED <<rows, seq, now, call, main_pc, config, pc, last_text_hash,
                   last_image_hash, no_change_count, changed, textRun, imageRun,
                   textWrite, imageWrite, db_open, poll_interval, firstRead, pipe,
                   appVars>>

CaptureNext == CaptureRegion

CaptureSpec == CaptureInit /\ [][CaptureNext]_vars

----------------------------------------------------------------------------
(* SchemaSpec: INSERT statements of any shape run against clipboard_history *)

\* the rows an INSERT statement may try to store: any content_type, each
\* payload column NULL or not
RowShapes(id, t) ==
    [id           : {id},
     content_type : {"image", "text", "file"},
     content_data : {None, Some(<<137, 80>>)},
     text_content : {None, Some(<<"a">>)},
     thumbnail    : {None, Some(<<1>>)},
     created_at   : {t},
     file_size    : {None}]

\* an INSERT of one row; the row tried is kept in the call record
SqlInsert ==
    /\ seq < MaxApiId
    /\ \E r \in RowShapes(seq + 1, now), io \in BOOLEAN :
          LET o == Insert(rows, seq, r, io)
          IN  /\ rows' = o.rows
              /\ seq' = o.seq
              /\ call' = Call("sql_insert", <<>>, 0, None, <<>>, <<>>,
                              o.ok, o.id, 0, <<r>>)
    /\ UNCHANGED now
    /\ ProgUnchanged

SchemaNext ==
    \/ SqlInsert
    \/ ApiDeleteEntry
    \/ Tick

SchemaSpec == StoreInit /\ [][SchemaNext]_vars

----------------------------------------------------------------------------
(* ImageSpec: encode_png and create_thumbnail as functions of their arguments *)

\* the largest width and height of an image encoded
DimMax == 3

\* the largest max_size asked of create_thumbnail
ThumbMax == 4

\* a pixel buffer of n bytes
Pixels(n) == [i \in 1..n |-> i % 256]

\* byte strings image::load_from_memory rejects: empty, cut short, no magic
Undecodable == {<<>>, <<PngMagic, 1, 1>>, <<0, 1, 1, 1, 2, 3, 4>>}

\* what create_thumbnail is given: PNGs encode_png made, and other bytes
PngInputs ==
    {encode_png(Pixels(w * h * 4), w, h)[1] : w, h \in 1..DimMax} \cup Undecodable

ImageInit ==
    /\ rows = {}
    /\ seq = 0
    /\ now = 0
    /\ call = NoCall
    /\ main_pc = "api"
    /\ config = [auto_cleanup |-> FALSE, retention_days |-> 0, max_entries |-> 0]
    /\ pc = "sleep"
    /\ last_text_hash = None
    /\ last_image_hash = None
    /\ no_change_count = 0
    /\ changed = FALSE
    /\ textRun = NoRun
    /\ imageRun = NoRun
    /\ textWrite = "none"
    /\ imageWrite = "none"
    /\ db_open = TRUE
    /\ poll_interval = 0
    /\ firstRead = NoRead
    /\ capture = NoCapture
    /\ pipe = NoPipe
    /\ cb_lock = "none"
    /\ db_lock = "none"
    /\ ui_pc = "idle"
    /\ worker_pc = "idle"
    /\ txn = NoTxn
    /\ uiWrite = "none"
    /\ attempt = NoAttempt

ImageUnchanged ==
    UNCHANGED <<rows, seq, now, call, main_pc, config, pc, last_text_hash,
                last_image_hash, no_change_count, changed, textRun, imageRun,
                textWrite, imageWrite, db_open, poll_interval, firstRead, capture,
                appVars>>

\* a call of encode_png: any dimensions up to DimMax, a buffer shorter than,
\* as long as or longer than width * height * 4
EncodePng ==
    /\ \E width, height \in 0..DimMax, n \in 0..((DimMax * DimMax * 4) + 1) :
          pipe' = [op |-> "encode_png", bytes |-> Pixels(n), width |-> width,
                  height |-> height, max_size |-> 0,
                  result |-> encode_png(Pixels(n), width, height)]
    /\ ImageUnchanged

\* a call of create_thumbnail
CreateThumbnail ==
    /\ \E png_bytes \in PngInputs, max_size \in 1..ThumbMax :
          pipe' = [op |-> "create_thumbnail", bytes |-> png_bytes,
                  width |-> IF Decodable(png_bytes) THEN png_bytes[2] ELSE 0,
                  height |-> IF Decodable(png_bytes) THEN png_bytes[3] ELSE 0,
                  max_size |-> max_size,
                  result |-> create_thumbnail(png_bytes, max_size)]
    /\ ImageUnchanged

\* a call of bgra_to_rgba on a buffer of whole pixels or with bytes left over
BgraToRgba ==
    /\ \E n \in 0..(DimMax * 4) :
          pipe' = [op |-> "bgra_to_rgba", bytes |-> Pixels(n), width |-> 0,
                   height |-> 0, max_size |-> 0,
                   result |-> Some(bgra_to_rgba(Pixels(n)))]
    /\ ImageUnchanged

ImageNext ==
    \/ EncodePng
    \/ CreateThumbnail
    \/ BgraToRgba

ImageSpec == ImageInit /\ [][ImageNext]_vars

----------------------------------------------------------------------------
(* SearchSpec: search_text over a store filled up to and past its LIMIT *)

\* how many rows past SearchLimit the filled store goes
FillOver == 2

\* the text of the i-th insert_text call that filled the store
FillText(i) == IF i % 3 = 0 THEN <<"A", "b">> ELSE <<"a">>

\* n insert_text calls, one a second; with tied the insert that falls just
\* outside the SearchLimit newest came in the same second as the next
Filled(n, tied) ==
    {TextRow(i, FillText(i),
             IF tied /\ i = n - SearchLimit THEN i + 1 ELSE i) : i \in 1..n}

SearchInit ==
    /\ \E n \in (SearchLimit - 1)..(SearchLimit + FillOver), tied \in BOOLEAN :
          /\ rows = Filled(n, tied)
          /\ seq = n
    /\ now \in Times
    /\ call = NoCall
    /\ main_pc = "api"
    /\ config = [auto_cleanup |-> FALSE, retention_days |-> 0, max_entries |-> 0]
    /\ pc = "sleep"
    /\ last_text_hash = None
    /\ last_image_hash = None
    /\ no_change_count = 0
    /\ changed = FALSE
    /\ textRun = NoRun
    /\ imageRun = NoRun
    /\ textWrite = "none"
    /\ imageWrite = "none"
    /\ db_open = TRUE
    /\ poll_interval = 0
    /\ firstRead = NoRead
    /\ capture = NoCapture
    /\ pipe = NoPipe
    /\ cb_lock = "none"
    /\ db_lock = "none"
    /\ ui_pc = "idle"
    /\ worker_pc = "idle"
    /\ txn = NoTxn
    /\ uiWrite = "none"
    /\ attempt = NoAttempt
    /\ pipe = NoPipe

SearchNext ==
    \/ ApiSearchText
    \/ ApiDeleteEntry
    \/ Tick

SearchSpec == SearchInit /\ [][SearchNext]_vars

----------------------------------------------------------------------------
(* Spec: the running program *)

\* what the startup and the monitor leave alone
OutsideUnchanged == UNCHANGED <<capture, pipe, appVars>>

\* config.history as main() may find it; retention and size are kept small
Configs ==
    {[auto_cleanup |-> b, retention_days |-> 1, max_entries |-> 2] : b \in BOOLEAN}

Init ==
    /\ rows = {}
    /\ seq = 0
    /\ now = 0
    /\ call = NoCall
    /\ main_pc = "start"
    /\ config \in Configs
    /\ pc = "sleep"
    /\ last_text_hash = None
    /\ last_image_hash = None
    /\ no_change_count = 0
    /\ changed = FALSE
    /\ textRun = NoRun
    /\ imageRun = NoRun
    /\ textWrite = "none"
    /\ imageWrite = "none"
    /\ db_open = FALSE
    /\ poll_interval = 0
    /\ firstRead = NoRead
    /\ capture = NoCapture
    /\ pipe = NoPipe
    /\ cb_lock = "none"
    /\ db_lock = "none"
    /\ ui_pc = "idle"
    /\ worker_pc = "idle"
    /\ txn = NoTxn
    /\ uiWrite = "none"
    /\ attempt = NoAttempt

\* main(), lines 33-68, in a process just launched: open the store (opened is
\* what Database::new returned), run the maintenance when auto_cleanup is set
\* (both results are dropped), create the two empty slots, spawn the monitor
Startup ==
    /\ OutsideUnchanged
    /\ main_pc \in {"start", "panicked"}
    /\ \E opened, io1, io2 \in BOOLEAN :
          /\ db_open' = opened
          /\ main_pc' = AfterOpen(opened)
          /\ IF opened
             THEN LET afterCleanup ==
                          IF config.auto_cleanup /\ io1
                          THEN cleanup_old_entries(rows, now, config.retention_days).rows
                          ELSE rows
                  IN  IF config.auto_cleanup /\ io2
                      THEN rows' \in enforce_max_entries(afterCleanup, config.max_entries)
                      ELSE rows' = afterCleanup
             ELSE UNCHANGED rows
    /\ last_text_hash' = None
    /\ last_image_hash' = None
    /\ no_change_count' = 0
    /\ pc' = "sleep"
    /\ UNCHANGED <<seq, now, call, config, changed, textRun, imageRun,
                   textWrite, imageWrite, poll_interval, firstRead>>

\* the process ends while the monitor sleeps: its memory is gone, the store
\* file stays
Exit ==
    /\ OutsideUnchanged
    /\ main_pc = "running"
    /\ pc = "sleep"
    /\ main_pc' = "start"
    /\ last_text_hash' = None
    /\ last_image_hash' = None
    /\ no_change_count' = 0
    /\ changed' = FALSE
    /\ textRun' = NoRun
    /\ imageRun' = NoRun
    /\ textWrite' = "none"
    /\ imageWrite' = "none"
    /\ db_open' = FALSE
    /\ poll_interval' = 0
    /\ firstRead' = NoRead
    /\ UNCHANGED <<rows, seq, now, call, config, pc>>

\* the wall clock moves on a day while the monitor sleeps
ClockAdvance ==
    /\ OutsideUnchanged
    /\ pc = "sleep"
    /\ now < SecondsPerDay
    /\ now' = now + SecondsPerDay
    /\ UNCHANGED <<rows, seq, call, main_pc, config, pc, last_text_hash,
                   last_image_hash, no_change_count, changed, textRun, imageRun,
                   textWrite, imageWrite, db_open, poll_interval, firstRead>>

\* lines 52-67: sleep poll_interval, lock the clipboard (locked is whether
\* clipboard.lock() returned Ok), changed = false
MonWake ==
    /\ OutsideUnchanged
    /\ main_pc = "running"
    /\ pc = "sleep"
    /\ \E locked \in BOOLEAN :
          IF locked
          THEN /\ pc' = "text"
               /\ poll_interval' = PollInterval(no_change_count)
               /\ firstRead' = [firstRead EXCEPT !.now = "none"]
          ELSE /\ pc' = OnLockError
               /\ UNCHANGED <<poll_interval, firstRead>>
    /\ changed' = FALSE
    /\ UNCHANGED <<rows, seq, now, call, main_pc, config, last_text_hash,
                   last_image_hash, no_change_count, textRun, imageRun,
                   textWrite, imageWrite, db_open>>

\* lines 70-87, with read what cb.get_text() returned
MonTextCheck(read) ==
    /\ firstRead' = ReadAfter(firstRead, "text", read # None /\ read[1] # <<>>)
    /\ IF read # None /\ read[1] # <<>>
       THEN LET text   == read[1]
                hash   == calculate_hash(as_bytes(text))
               IN  IF is_new(last_text_hash, hash)
                THEN /\ seq < MaxId
                     /\ \E io \in BOOLEAN :
                           LET o == insert_text(rows, seq, now, text, io)
                           IN  /\ rows' = o.rows
                               /\ seq' = o.seq
                               /\ textWrite' = IF o.ok THEN "ok" ELSE "failed"
                               /\ last_text_hash' = TextHashAfter(last_text_hash, hash, o.ok)
                     /\ changed' = TRUE
                     /\ textRun' = RunAfter(textRun, text, TRUE, TRUE)
                ELSE /\ textWrite' = "none"
                     /\ textRun' = RunAfter(textRun, text, FALSE, FALSE)
                     /\ UNCHANGED <<rows, seq, last_text_hash, changed>>
       ELSE /\ textWrite' = "none"
            /\ textRun' = NoRun
            /\ UNCHANGED <<rows, seq, last_text_hash, changed>>

\* the text check of a cycle
MonText ==
    /\ OutsideUnchanged
    /\ main_pc = "running"
    /\ pc = "text"
    /\ pc' = "image"
    /\ \E read \in ClipTexts : MonTextCheck(read)
    /\ UNCHANGED <<now, call, main_pc, config, last_image_hash, no_change_count,
                   imageRun, imageWrite, db_open, poll_interval>>

\* lines 90-120, with read what cb.get_image() returned: the image check, then
\* the counter
MonImageCheck(read) ==
    /\ firstRead' = ReadAfter(firstRead, "image", read # None /\ read[1].bytes # <<>>)
    /\ IF read # None /\ read[1].bytes # <<>>
       THEN LET img    == read[1]
                hash   == calculate_hash(img.bytes)
                   png    == encode_png(img.bytes, img.width, img.height)
            IN  IF is_new(last_image_hash, hash)
                THEN /\ IF png # None
                        THEN /\ seq < MaxId
                             /\ \E io \in BOOLEAN :
                                   LET thumb == unwrap_or_default(
                                                    create_thumbnail(png[1], ThumbnailSize))
                                       o == insert_image(rows, seq, now, png[1], thumb, io)
                                   IN  /\ rows' = o.rows
                                       /\ seq' = o.seq
                                       /\ imageWrite' = IF o.ok THEN "ok" ELSE "failed"
                                       /\ last_image_hash' =
                                              ImageHashAfter(last_image_hash, hash, o.ok)
                        ELSE /\ imageWrite' = "noencode"
                             /\ last_image_hash' = ImageHashAfter(last_image_hash, hash, FALSE)
                             /\ UNCHANGED <<rows, seq>>
                     /\ no_change_count' = NextNoChange(no_change_count, TRUE)
                     /\ imageRun' = RunAfter(imageRun, img, TRUE, png # None)
                ELSE /\ imageWrite' = "none"
                     /\ imageRun' = RunAfter(imageRun, img, FALSE, FALSE)
                     /\ no_change_count' = NextNoChange(no_change_count, changed)
                     /\ UNCHANGED <<rows, seq, last_image_hash>>
       ELSE /\ imageWrite' = "none"
            /\ imageRun' = NoRun
            /\ no_change_count' = NextNoChange(no_change_count, changed)
            /\ UNCHANGED <<rows, seq, last_image_hash>>

\* the image check of a cycle and the end of the loop body: changed and
\* poll_interval go out of scope, the guard on the clipboard is dropped
MonImage ==
    /\ OutsideUnchanged
    /\ main_pc = "running"
    /\ pc = "image"
    /\ pc' = "sleep"
    /\ \E read \in ClipImages : MonImageCheck(read)
    /\ changed' = FALSE
    /\ poll_interval' = 0
    /\ UNCHANGED <<now, call, main_pc, config, last_text_hash, textRun, textWrite,
                   db_open>>

Next ==
    \/ Startup
    \/ Exit
    \/ ClockAdvance
    \/ MonWake
    \/ MonText
    \/ MonImage

Spec == Init /\ [][Next]_vars

----------------------------------------------------------------------------
(* AppSpec: the threads of the running program side by side: the monitor
   thread, the GTK main loop thread with the capture overlay and the history
   window, and the thread the clear button spawns.  A clipboard call and a store
   statement each take two steps, the first entering it, the second leaving it.
   No thread panics while it holds a mutex, so lock() blocks and never returns
   Err. *)

\* overlay.rs line 235: the smallest selection that is captured
MinSelection == 10

\* what cb.get_text() and cb.get_image() return in AppSpec
AppTexts == {None, Some(<<"a">>)}

\* the RGBA image the capture pipeline hands to set_clipboard_image for the
\* selection the model captures
CapturedImage ==
    LET r == capture_region(0, 0, MinSelection, MinSelection, 1, 1, "ok")
    IN  [width |-> r.width, height |-> r.height, bytes |-> bgra_to_rgba(r.data)]

\* what cb.get_image() can return: nothing, or the image a capture put there
AppImages == {None, Some(CapturedImage)}

\* a guard on the clipboard mutex that outlives its block
KeepClipboardGuard(holder) == holder

\* the guard on the clipboard mutex goes out of scope: the mutex is free
DropClipboardGuard(holder) == "none"

\* a clipboard mutex anyone can take at any time
LockClipboardUnchecked(holder) == TRUE

\* clipboard.lock(): returns once no thread holds the mutex
LockClipboard(holder) == holder = "none"

\* a store mutex anyone can take at any time
LockDbUnchecked(holder) == TRUE

\* db.lock(): returns once no thread holds the mutex
LockDb(holder) == holder = "none"

\* whether SQLite can write the row: not once the store holds MaxAppId ids
CanWrite == IF seq < MaxAppId THEN BOOLEAN ELSE {FALSE}

\* the positions at which a thread is inside a call on the clipboard handle
MonitorInClipboard == pc \in {"get_text", "get_image"}

UiInClipboard == ui_pc \in {"set_image", "restore_set"}

\* the positions at which a thread is inside a statement that writes the store
MonitorInWrite == pc \in {"insert_text", "insert_image"}

UiInWrite == ui_pc = "insert_image"

WorkerInWrite == worker_pc = "clear"

\* the steps of the capture pipeline: capture and conversion, encode and
\* thumbnail, clipboard write, store insert
CapturePipeline == {"capture", "cb_wait", "set_image", "db_wait", "insert_image"}

\* the store the process opens: empty, or holding the text row an earlier
\* run of the program left in it
PersistedStores ==
    {[rows |-> {}, seq |-> 0],
     [rows |-> {TextRow(1, <<"a">>, 0)}, seq |-> 1]}

AppInit ==
    /\ \E st \in PersistedStores : rows = st.rows /\ seq = st.seq
    /\ now = 0
    /\ call = NoCall
    /\ main_pc = "running"
    /\ config = [auto_cleanup |-> FALSE, retention_days |-> 0, max_entries |-> 0]
    /\ pc = "sleep"
    /\ last_text_hash = None
    /\ last_image_hash = None
    /\ no_change_count = 0
    /\ changed = FALSE
    /\ textRun = NoRun
    /\ imageRun = NoRun
    /\ textWrite = "none"
    /\ imageWrite = "none"
    /\ db_open = TRUE
    /\ poll_interval = 0
    /\ firstRead = NoRead
    /\ capture = NoCapture
    /\ pipe = NoPipe
    /\ cb_lock = "none"
    /\ db_lock = "none"
    /\ ui_pc = "idle"
    /\ worker_pc = "idle"
    /\ txn = NoTxn
    /\ uiWrite = "none"
    /\ attempt = NoAttempt

\* what no step of AppSpec changes
AppFixed == UNCHANGED <<now, call, main_pc, config, db_open, pipe>>

\* what the steps of the main loop thread and of the worker leave alone
MonitorUnchanged ==
    UNCHANGED <<pc, last_text_hash, last_image_hash, no_change_count, changed,
                textRun, imageRun, textWrite, imageWrite, poll_interval, firstRead>>

\* clipboard.rs lines 52-67: sleep, take the clipboard mutex, changed = false;
\* cb.get_text() is entered
AMonWake ==
    /\ pc = "sleep"
    /\ LockClipboard(cb_lock)
    /\ cb_lock' = "monitor"
    /\ pc' = "get_text"
    /\ poll_interval' = PollInterval(no_change_count)
    /\ changed' = FALSE
    /\ firstRead' = [firstRead EXCEPT !.now = "none"]
    /\ AppFixed
    /\ UNCHANGED attempt
    /\ UNCHANGED <<rows, seq, last_text_hash, last_image_hash, no_change_count,
                   textRun, imageRun, textWrite, imageWrite, capture, db_lock,
                   ui_pc, worker_pc, txn, uiWrite>>

\* lines 70-78: cb.get_text() returns read; new text goes on to the store
AMonGetText ==
    /\ pc = "get_text"
    /\ \E read \in AppTexts :
          /\ firstRead' = ReadAfter(firstRead, "text", read # None /\ read[1] # <<>>)
          /\ textWrite' = "none"
          /\ IF read # None /\ read[1] # <<>>
             THEN LET hash == calculate_hash(as_bytes(read[1]))
                  IN  IF is_new(last_text_hash, hash)
                      THEN /\ changed' = TRUE
                           /\ textRun' = RunAfter(textRun, read[1], TRUE, TRUE)
                           /\ pc' = "text_db"
                      ELSE /\ textRun' = RunAfter(textRun, read[1], FALSE, FALSE)
                           /\ pc' = "get_image"
                           /\ UNCHANGED changed
             ELSE /\ textRun' = NoRun
                  /\ pc' = "get_image"
                  /\ UNCHANGED changed
    /\ AppFixed
    /\ UNCHANGED attempt
    /\ UNCHANGED <<rows, seq, last_text_hash, last_image_hash, no_change_count,
                   imageRun, imageWrite, poll_interval, capture, cb_lock, db_lock,
                   ui_pc, worker_pc, txn, uiWrite>>

\* line 79: take the store mutex; the INSERT of insert_text is entered and
\* reads the id it will give
AMonTextLockDb ==
    /\ pc = "text_db"
    /\ LockDb(db_lock)
    /\ db_lock' = "monitor"
    /\ txn' = [txn EXCEPT !.monitor = seq + 1]
    /\ pc' = "insert_text"
    /\ AppFixed
    /\ UNCHANGED attempt
    /\ UNCHANGED <<rows, seq, last_text_hash, last_image_hash, no_change_count,
                   changed, textRun, imageRun, textWrite, imageWrite, poll_interval,
                   firstRead, capture, cb_lock, ui_pc, worker_pc, uiWrite>>

\* lines 80-84: insert_text returns, the store mutex is released, the text
\* slot is set; cb.get_image() is entered
AMonInsertText ==
    /\ pc = "insert_text"
    /\ \E io \in CanWrite :
          LET o == insert_text(rows, txn.monitor - 1, now, textRun.content[1], io)
          IN  /\ rows' = o.rows
              /\ seq' = IF o.ok THEN o.seq ELSE seq
              /\ textWrite' = IF o.ok THEN "ok" ELSE "failed"
              /\ last_text_hash' =
                     TextHashAfter(last_text_hash,
                                   calculate_hash(as_bytes(textRun.content[1])), o.ok)
    /\ db_lock' = "none"
    /\ txn' = [txn EXCEPT !.monitor = 0]
    /\ pc' = "get_image"
    /\ AppFixed
    /\ UNCHANGED attempt
    /\ UNCHANGED <<last_image_hash, no_change_count, changed, textRun, imageRun,
                   imageWrite, poll_interval, firstRead, capture, cb_lock, ui_pc,
                   worker_pc, uiWrite>>

\* lines 116-120 and the end of the loop body: the counter, the locals and the
\* guard on the clipboard dropped; wasChanged is the value of changed
AMonEndCycle(wasChanged) ==
    /\ no_change_count' = NextNoChange(no_change_count, wasChanged)
    /\ changed' = FALSE
    /\ poll_interval' = 0
    /\ cb_lock' = "none"
    /\ pc' = "sleep"

\* lines 90-103: cb.get_image() returns read; a new image that encodes goes on
\* to the store, anything else ends the cycle
AMonGetImage ==
    /\ pc = "get_image"
    /\ \E read \in AppImages :
          /\ firstRead' = ReadAfter(firstRead, "image", read # None /\ read[1].bytes # <<>>)
          /\ IF read # None /\ read[1].bytes # <<>>
             THEN LET img  == read[1]
                      hash == calculate_hash(img.bytes)
                      png  == encode_png(img.bytes, img.width, img.height)
                  IN  IF is_new(last_image_hash, hash)
                      THEN /\ imageRun' = RunAfter(imageRun, img, TRUE, png # None)
                           /\ IF png # None
                              THEN /\ changed' = TRUE
                                   /\ pc' = "image_db"
                                   /\ imageWrite' = "none"
                                   /\ UNCHANGED <<last_image_hash, no_change_count,
                                                  poll_interval, cb_lock>>
                              ELSE /\ imageWrite' = "noencode"
                                   /\ last_image_hash' =
                                          ImageHashAfter(last_image_hash, hash, FALSE)
                                   /\ AMonEndCycle(TRUE)
                      ELSE /\ imageRun' = RunAfter(imageRun, img, FALSE, FALSE)
                           /\ imageWrite' = "none"
                           /\ AMonEndCycle(changed)
                           /\ UNCHANGED last_image_hash
             ELSE /\ imageRun' = NoRun
                  /\ imageWrite' = "none"
                  /\ AMonEndCycle(changed)
                  /\ UNCHANGED last_image_hash
    /\ AppFixed
    /\ UNCHANGED attempt
    /\ UNCHANGED <<rows, seq, last_text_hash, textRun, textWrite, capture, db_lock,
                   ui_pc, worker_pc, txn, uiWrite>>

\* line 104: take the store mutex; the INSERT of insert_image is entered
AMonImageLockDb ==
    /\ pc = "image_db"
    /\ LockDb(db_lock)
    /\ db_lock' = "monitor"
    /\ txn' = [txn EXCEPT !.monitor = seq + 1]
    /\ pc' = "insert_image"
    /\ AppFixed
    /\ UNCHANGED attempt
    /\ UNCHANGED <<rows, seq, last_text_hash, last_image_hash, no_change_count,
                   changed, textRun, imageRun, textWrite, imageWrite, poll_interval,
                   firstRead, capture, cb_lock, ui_pc, worker_pc, uiWrite>>

\* lines 105-120: insert_image returns, the store mutex is released, the image
\* slot is set, the cycle ends
AMonInsertImage ==
    /\ pc = "insert_image"
    /\ \E io \in CanWrite :
          LET img   == imageRun.content[1]
              png   == encode_png(img.bytes, img.width, img.height)[1]
              thumb == unwrap_or_default(create_thumbnail(png, ThumbnailSize))
              o     == insert_image(rows, txn.monitor - 1, now, png, thumb, io)
          IN  /\ rows' = o.rows
              /\ seq' = IF o.ok THEN o.seq ELSE seq
              /\ imageWrite' = IF o.ok THEN "ok" ELSE "failed"
              /\ last_image_hash' =
                     ImageHashAfter(last_image_hash, calculate_hash(img.bytes), o.ok)
    /\ db_lock' = "none"
    /\ txn' = [txn EXCEPT !.monitor = 0]
    /\ AMonEndCycle(TRUE)
    /\ AppFixed
    /\ UNCHANGED attempt
    /\ UNCHANGED <<last_text_hash, textRun, imageRun, textWrite, firstRead, capture,
                   ui_pc, worker_pc, uiWrite>>

\* overlay.rs lines 215-245, the drag-end handler: close the overlay, drop a
\* selection under MinSelection, else register the 300 ms timeout
UiDragEnd ==
    /\ ui_pc = "idle"
    /\ \E sel_w, sel_h \in {MinSelection - 1, MinSelection} :
          ui_pc' = IF sel_w < MinSelection \/ sel_h < MinSelection
                   THEN "idle" ELSE "capture_delay"
    /\ uiWrite' = "none"
    /\ attempt' = NoAttempt
    /\ capture' = NoCapture
    /\ AppFixed
    /\ MonitorUnchanged
    /\ UNCHANGED <<rows, seq, cb_lock, db_lock, worker_pc, txn>>

\* line 245: glib::timeout_add_local_once runs its closure on the thread of
\* the main loop; capture_region is entered
UiCaptureTimer ==
    /\ ui_pc = "capture_delay"
    /\ ui_pc' = "capture"
    /\ AppFixed
    /\ UNCHANGED attempt
    /\ MonitorUnchanged
    /\ UNCHANGED <<rows, seq, capture, cb_lock, db_lock, worker_pc, txn, uiWrite>>

\* lines 246-253 and 274-284: capture_region returns; on Ok bgra_to_rgba,
\* encode_png and create_thumbnail follow, on an error
\* notify_screenshot_error is called and the closure ends
UiCapture ==
    /\ ui_pc = "capture"
    /\ \E x11 \in {"ok", "noreply"} :
          LET r == capture_region(0, 0, MinSelection, MinSelection, 1, 1, x11)
          IN  /\ capture' = [x |-> 0, y |-> 0, w |-> MinSelection, h |-> MinSelection,
                             screen_width |-> 1, screen_height |-> 1,
                             called |-> TRUE, result |-> r]
              /\ ui_pc' = IF r.ok /\ encode_png(bgra_to_rgba(r.data), r.width, r.height) # None
                          THEN "cb_wait" ELSE "idle"
              /\ attempt' =
                    IF r.ok /\ encode_png(bgra_to_rgba(r.data), r.width, r.height) # None
                    THEN [op |-> "capture", done |-> FALSE, captured |-> TRUE,
                          written |-> FALSE, notes |-> <<>>]
                    ELSE [op |-> "capture", done |-> TRUE, captured |-> FALSE,
                          written |-> FALSE, notes |-> <<"screenshot_error">>]
    /\ AppFixed
    /\ MonitorUnchanged
    /\ UNCHANGED <<rows, seq, cb_lock, db_lock, worker_pc, txn, uiWrite>>

\* line 256: take the clipboard mutex; set_clipboard_image is entered
UiLockClipboard ==
    /\ ui_pc = "cb_wait"
    /\ LockClipboard(cb_lock)
    /\ cb_lock' = "ui"
    /\ ui_pc' = "set_image"
    /\ AppFixed
    /\ UNCHANGED attempt
    /\ MonitorUnchanged
    /\ UNCHANGED <<rows, seq, capture, db_lock, worker_pc, txn, uiWrite>>

\* lines 257-261: set_clipboard_image returns (an Err is logged and
\* notify_screenshot_error is called), the clipboard mutex is released
UiSetImage ==
    /\ ui_pc = "set_image"
    /\ \E ok \in BOOLEAN :
          attempt' = [attempt EXCEPT
                         !.written = ok,
                         !.notes = IF ok THEN @ ELSE Append(@, "screenshot_error")]
    /\ cb_lock' = DropClipboardGuard(cb_lock)
    /\ ui_pc' = "db_wait"
    /\ AppFixed
    /\ MonitorUnchanged
    /\ UNCHANGED <<rows, seq, capture, db_lock, worker_pc, txn, uiWrite>>

\* line 264: take the store mutex; the INSERT of insert_image is entered
UiLockDb ==
    /\ ui_pc = "db_wait"
    /\ LockDb(db_lock)
    /\ db_lock' = "ui"
    /\ txn' = [txn EXCEPT !.ui = seq + 1]
    /\ ui_pc' = "insert_image"
    /\ AppFixed
    /\ UNCHANGED attempt
    /\ MonitorUnchanged
    /\ UNCHANGED <<rows, seq, capture, cb_lock, worker_pc, uiWrite>>

\* lines 265-272: insert_image returns (an Err is logged), the store mutex is
\* released, the PNG goes to the temporary file, notify_screenshot_success is
\* called and the closure ends
UiInsertImage ==
    /\ ui_pc = "insert_image"
    /\ \E io \in CanWrite :
          LET r     == capture.result
              png   == encode_png(bgra_to_rgba(r.data), r.width, r.height)[1]
              thumb == unwrap_or_default(create_thumbnail(png, ThumbnailSize))
              o     == insert_image(rows, txn.ui - 1, now, png, thumb, io)
          IN  /\ rows' = o.rows
              /\ seq' = IF o.ok THEN o.seq ELSE seq
              /\ uiWrite' = IF o.ok THEN "ok" ELSE "failed"
    /\ db_lock' = "none"
    /\ txn' = [txn EXCEPT !.ui = 0]
    /\ ui_pc' = "idle"
    /\ attempt' = [attempt EXCEPT !.done = TRUE,
                                  !.notes = Append(@, "screenshot_success")]
    /\ AppFixed
    /\ MonitorUnchanged
    /\ UNCHANGED <<capture, cb_lock, worker_pc>>

\* history_dialog.rs lines 374-375: a history card is clicked;
\* restore_entry_to_clipboard is entered
UiRestore ==
    /\ ui_pc = "idle"
    /\ ui_pc' = "restore_wait"
    /\ attempt' = [op |-> "restore", done |-> FALSE, captured |-> FALSE,
                   written |-> FALSE, notes |-> <<>>]
    /\ uiWrite' = "none"
    /\ capture' = NoCapture
    /\ AppFixed
    /\ MonitorUnchanged
    /\ UNCHANGED <<rows, seq, cb_lock, db_lock, worker_pc, txn>>

\* lines 413 and 446: take the clipboard mutex; set_clipboard_text or
\* set_clipboard_image is entered
UiRestoreLock ==
    /\ ui_pc = "restore_wait"
    /\ LockClipboard(cb_lock)
    /\ cb_lock' = "ui"
    /\ ui_pc' = "restore_set"
    /\ AppFixed
    /\ UNCHANGED attempt
    /\ MonitorUnchanged
    /\ UNCHANGED <<rows, seq, capture, db_lock, worker_pc, txn, uiWrite>>

\* lines 414-418, 447-451 and 461: the clipboard call returns and the mutex is
\* released; on Err the function logs and returns, on Ok it goes on to
\* notify_clipboard_restored
UiRestoreSet ==
    /\ ui_pc = "restore_set"
    /\ \E ok \in BOOLEAN :
          attempt' = [attempt EXCEPT
                         !.done = TRUE,
                         !.written = ok,
                         !.notes = IF ok THEN Append(@, "clipboard_restored") ELSE @]
    /\ cb_lock' = DropClipboardGuard(cb_lock)
    /\ ui_pc' = "idle"
    /\ AppFixed
    /\ MonitorUnchanged
    /\ UNCHANGED <<rows, seq, capture, db_lock, worker_pc, txn, uiWrite>>

\* history_dialog.rs lines 138-141: the list is (re)populated, on opening the
\* dialog or on a change of the search text; the flow boxes are emptied and
\* db_load.lock() is requested
UiPopulate ==
    /\ ui_pc = "idle"
    /\ ui_pc' = "populate_wait"
    /\ attempt' = NoAttempt
    /\ uiWrite' = "none"
    /\ capture' = NoCapture
    /\ AppFixed
    /\ MonitorUnchanged
    /\ UNCHANGED <<rows, seq, cb_lock, db_lock, worker_pc, txn>>

\* line 143: take the store mutex; the queries of the two lists are entered
UiPopulateLock ==
    /\ ui_pc = "populate_wait"
    /\ LockDb(db_lock)
    /\ db_lock' = "ui"
    /\ ui_pc' = "populate"
    /\ AppFixed
    /\ UNCHANGED attempt
    /\ MonitorUnchanged
    /\ UNCHANGED <<rows, seq, capture, cb_lock, worker_pc, txn, uiWrite>>

\* lines 144-170: the lists are read and the entry widgets built (no
\* clipboard call: the cards only keep a clone of the handle), the store mutex
\* is released
UiPopulateDone ==
    /\ ui_pc = "populate"
    /\ db_lock' = "none"
    /\ ui_pc' = "idle"
    /\ AppFixed
    /\ UNCHANGED attempt
    /\ MonitorUnchanged
    /\ UNCHANGED <<rows, seq, capture, cb_lock, worker_pc, txn, uiWrite>>

\* lines 181-193: the clear button is clicked; the 320 ms timeout is registered
UiClearClicked ==
    /\ ui_pc = "idle"
    /\ ui_pc' = "clear_delay"
    /\ attempt' = NoAttempt
    /\ uiWrite' = "none"
    /\ capture' = NoCapture
    /\ AppFixed
    /\ MonitorUnchanged
    /\ UNCHANGED <<rows, seq, cb_lock, db_lock, worker_pc, txn>>

\* lines 193-207: the timeout's closure empties the list and spawns the thread
\* for the store (one such thread at a time in the model)
UiClearTimer ==
    /\ ui_pc = "clear_delay"
    /\ worker_pc = "idle"
    /\ worker_pc' = "db_wait"
    /\ ui_pc' = "idle"
    /\ AppFixed
    /\ UNCHANGED attempt
    /\ MonitorUnchanged
    /\ UNCHANGED <<rows, seq, capture, cb_lock, db_lock, txn, uiWrite>>

\* line 204: the spawned thread takes the store mutex; clear_history is entered
WorkerLockDb ==
    /\ worker_pc = "db_wait"
    /\ LockDb(db_lock)
    /\ db_lock' = "worker"
    /\ worker_pc' = "clear"
    /\ AppFixed
    /\ UNCHANGED attempt
    /\ MonitorUnchanged
    /\ UNCHANGED <<rows, seq, capture, cb_lock, ui_pc, txn, uiWrite>>

\* lines 205-206: clear_history of the page that was shown returns (the result
\* is dropped), the store mutex is released, the thread ends
WorkerClear ==
    /\ worker_pc = "clear"
    /\ \E ct \in ContentTypes, io \in BOOLEAN :
          rows' = IF io THEN clear_history(rows, Some(ct)).rows ELSE rows
    /\ db_lock' = "none"
    /\ worker_pc' = "idle"
    /\ AppFixed
    /\ UNCHANGED attempt
    /\ MonitorUnchanged
    /\ UNCHANGED <<seq, capture, cb_lock, ui_pc, txn, uiWrite>>

AppNext ==
    \/ AMonWake
    \/ AMonGetText
    \/ AMonTextLockDb
    \/ AMonInsertText
    \/ AMonGetImage
    \/ AMonImageLockDb
    \/ AMonInsertImage
    \/ UiDragEnd
    \/ UiCaptureTimer
    \/ UiCapture
    \/ UiLockClipboard
    \/ UiSetImage
    \/ UiLockDb
    \/ UiInsertImage
    \/ UiRestore
    \/ UiRestoreLock
    \/ UiRestoreSet
    \/ UiPopulate
    \/ UiPopulateLock
    \/ UiPopulateDone
    \/ UiClearClicked
    \/ UiClearTimer
    \/ WorkerLockDb
    \/ WorkerClear

AppSpec == AppInit /\ [][AppNext]_vars

----------------------------------------------------------------------------
(* The claims *)

\* C1: over a run of consecutive monitor cycles that all read the same
\* non-empty text, starting with a cycle that found the text's hash different
\* from the last text hash, exactly one insert_text call occurs: the first
\* cycle makes it and the later cycles of the run make none.
C1_TextDedup == textRun.new => textRun.calls = 1

\* a run of at least two cycles whose latest cycle made no insert
C1_Witness ==
    /\ textRun.new
    /\ textRun.len = 2
    /\ textRun.calls = 1
    /\ textWrite = "none"

\* C2 as stated: over a run of consecutive cycles that all read the same
\* non-empty image, starting where its hash differs from the last image hash,
\* exactly one insert_image call occurs.
C2_Original == imageRun.new => imageRun.calls = 1

\* C2 as amended: over such a run exactly one insert_image call occurs when
\* encode_png succeeds on the image, and none when it fails.
C2_ImageDedup ==
    imageRun.new =>
        LET img == imageRun.content[1]
        IN  imageRun.calls =
                IF encode_png(img.bytes, img.width, img.height) # None THEN 1 ELSE 0

\* a run of at least two cycles over an encodable image, the latest without insert
C2_Witness ==
    /\ imageRun.new
    /\ imageRun.len = 2
    /\ imageRun.calls = 1
    /\ imageWrite = "none"

\* C3: a monitor cycle whose insert_text (insert_image) failed leaves the last
\* text hash (last image hash) as it was.
C3_FailedWriteKeepsHash ==
    [][/\ (pc = "text" /\ pc' = "image" /\ textWrite' = "failed")
            => last_text_hash' = last_text_hash
       /\ (pc = "image" /\ pc' = "sleep" /\ imageWrite' = "failed")
            => last_image_hash' = last_image_hash]_vars

\* C4: when insert_text failed for a text in one cycle and the next cycle reads
\* the same text, that cycle calls insert_text again.
C4_RetryAfterFailure ==
    [][(/\ pc = "text" /\ pc' = "image"
        /\ textWrite = "failed"
        /\ textRun.content # None
        /\ textRun'.content = textRun.content)
          => textWrite' # "none"]_vars

\* C5: every successful insert_text adds exactly one row, with an id no row had
\* before and the text given, whatever rows are already there.
C5_InsertTextAlwaysAdds ==
    (call.op = "insert_text" /\ call.ok) =>
        /\ call.before \subseteq rows
        /\ Cardinality(rows) = Cardinality(call.before) + 1
        /\ \A r \in rows \ call.before :
              /\ r.id = call.id
              /\ r.text_content = Some(call.text)
              /\ \A q \in call.before : q.id # r.id

\* the text inserted was already in the store: two rows hold it now
C5_Witness ==
    /\ call.op = "insert_text"
    /\ call.ok
    /\ \E q \in call.before : q.text_content = Some(call.text)
    /\ \E q, r \in rows :
          q.id # r.id /\ q.text_content = Some(call.text) /\ r.text_content = Some(call.text)

\* C6: enforce_max_entries(N) on a store of M > N rows leaves exactly N rows, all
\* of them rows of the store before, and each at least as recent as every row it
\* deleted.
C6_EnforceKeepsMostRecent ==
    (call.op = "enforce_max_entries" /\ call.ok /\ Cardinality(call.before) > call.n) =>
        /\ rows \subseteq call.before
        /\ Cardinality(rows) = call.n
        /\ \A k \in rows : \A d \in call.before \ rows : k.created_at >= d.created_at

\* one row kept and an older row with a higher id deleted
C6_Witness ==
    /\ call.op = "enforce_max_entries"
    /\ call.ok
    /\ Cardinality(call.before) > call.n
    /\ \E k \in rows : \E d \in call.before \ rows :
          k.created_at > d.created_at /\ k.id < d.id

\* rows of one created_at, one kept and one deleted
C6_TieWitness ==
    /\ call.op = "enforce_max_entries"
    /\ call.ok
    /\ \E k \in rows : \E d \in call.before \ rows : k.created_at = d.created_at

\* C7: cleanup_old_entries(days) deletes exactly the rows with
\* created_at < now - days * 86400, leaves the others as they were and returns
\* the number of rows it deleted.
C7_CleanupExact ==
    (call.op = "cleanup_old_entries" /\ call.ok) =>
        /\ rows = {r \in call.before : r.created_at >= call.at - (call.n * 86400)}
        /\ call.count = Cardinality(call.before \ rows)

\* a row deleted and a row exactly at the cutoff kept
C7_Witness ==
    /\ call.op = "cleanup_old_entries"
    /\ call.ok
    /\ call.count > 0
    /\ \E r \in rows : r.created_at = call.at - (call.n * 86400)

\* C8: search_text(q) returns only text rows whose text_content contains q
\* as a literal substring.
C8_SearchLiteralSubstring ==
    (call.op = "search_text" /\ call.ok) =>
        \A i \in 1..Len(call.entries) :
            /\ call.entries[i].content_type = "text"
            /\ call.entries[i].text_content # None
            /\ Contains(call.entries[i].text_content[1], call.text)

\* C9: the results of get_recent_entries_by_type and search_text are sorted by
\* created_at descending, rows of equal created_at by id descending.
C9_OrderedWithIdTieBreak ==
    (call.op \in {"get_recent_entries_by_type", "search_text"} /\ call.ok) =>
        \A i, j \in 1..Len(call.entries) :
            i < j =>
                \/ call.entries[i].created_at > call.entries[j].created_at
                \/ /\ call.entries[i].created_at = call.entries[j].created_at
                   /\ call.entries[i].id > call.entries[j].id

\* C10: every row of the store is an image row with content_data and without
\* text_content, or a text row with text_content and without content_data and
\* thumbnail.
C10_OnePayloadPerType ==
    \A r \in rows :
        \/ /\ r.content_type = "image"
           /\ r.content_data # None
           /\ r.text_content = None
        \/ /\ r.content_type = "text"
           /\ r.text_content # None
           /\ r.content_data = None
           /\ r.thumbnail = None

\* a store holding a row of each type
C10_Witness ==
    /\ \E r \in rows : r.content_type = "image"
    /\ \E r \in rows : r.content_type = "text"

\* C11: row ids are never reused: the largest id ever assigned never goes
\* down, no row has an id above it, and every successful insert returns an id
\* greater than it, so greater than every id returned before, whether or not
\* the rows of those ids are still in the store.
C11_IdsNeverReused ==
    [][/\ seq' >= seq
       /\ \A r \in rows' : r.id <= seq'
       /\ (call' # call /\ call'.op \in {"insert_text", "insert_image"} /\ call'.ok)
             => /\ call'.id > seq
                /\ seq' = call'.id
                /\ \E r \in rows' \ rows : r.id = call'.id]_vars

\* an insert that returned an id above 1 into a store from which the rows of
\* the earlier ids had been deleted
C11_Witness ==
    /\ call.op \in {"insert_text", "insert_image"}
    /\ call.ok
    /\ call.id > 1
    /\ call.before = {}

\* C15: the monitor runs only in a process whose store was opened: a running
\* process has an open store, a monitor cycle is in progress only then, and a
\* process whose Database::new failed has terminated with no monitor step to
\* take.
C15_NoMonitorWithoutStore ==
    /\ main_pc = "running" => db_open
    /\ pc # "sleep" => (db_open /\ main_pc = "running")
    /\ main_pc = "panicked" =>
          (~db_open /\ pc = "sleep" /\ ~ENABLED (MonWake \/ MonText \/ MonImage))

\* the store of an earlier run could not be opened
C15_Witness ==
    /\ main_pc = "panicked"
    /\ ~db_open
    /\ rows # {}

\* C16: while the process runs the monitor is sleeping or in one of its two
\* checks and always has a next step; whatever a check met (failed read, failed
\* encode, failed write), the text check is followed by the image check and
\* the image check by the next sleep.
C16_MonitorNeverExits ==
    /\ [](main_pc = "running" =>
            /\ pc \in {"sleep", "text", "image"}
            /\ ENABLED (MonWake \/ MonText \/ MonImage))
    /\ [][/\ (pc = "text" /\ pc' # pc) => pc' = "image"
          /\ (pc = "image" /\ pc' # pc) => pc' = "sleep"]_vars

\* a new cycle started after a cycle whose text insert failed and whose image
\* could not be encoded
C16_Witness ==
    /\ main_pc = "running"
    /\ pc = "text"
    /\ textWrite = "failed"
    /\ imageWrite = "noencode"

\* C17: the sleep before a cycle is 750 ms when the no-change counter is at
\* most 5 and 1000 ms when it is above 5, and it is 750 ms whenever the cycle
\* before found new text or a new image.
C17_AdaptiveInterval ==
    pc = "text" =>
        /\ poll_interval = IF no_change_count <= 5 THEN 750 ELSE 1000
        /\ (textWrite # "none" \/ imageWrite # "none") => poll_interval = 750

\* the idle interval in use
C17_Witness ==
    /\ pc = "text"
    /\ no_change_count > 5
    /\ poll_interval = 1000

\* C18 as stated: the slots are empty when the monitor is started, and the
\* first non-empty text and the first non-empty image read after startup are
\* each treated as new and inserted.
C18_Original ==
    [][/\ (main_pc # "running" /\ main_pc' = "running")
            => (last_text_hash' = None /\ last_image_hash' = None)
       /\ (pc = "text" /\ pc' = "image" /\ firstRead'.now = "text")
            => /\ textRun'.new
               /\ \E r \in rows' \ rows : r.text_content = textRun'.content
       /\ (pc = "image" /\ pc' = "sleep" /\ firstRead'.now = "image")
            => /\ imageRun'.new
               /\ \E r \in rows' \ rows : r.content_type = "image"]_vars

\* C18 as amended: the slots are empty when the monitor is started; the first
\* non-empty text read after startup is treated as new, insert_text is called
\* for it and a row with the text is added exactly when the write succeeds; the
\* first non-empty image is treated as new, insert_image is called for it when
\* encode_png succeeds on it, and a row with its encoding is added exactly when
\* the write succeeds; rows already in the store do not matter.
C18_FirstReadIsNew ==
    [][/\ (main_pc # "running" /\ main_pc' = "running")
            => (last_text_hash' = None /\ last_image_hash' = None)
       /\ (pc = "text" /\ pc' = "image" /\ firstRead'.now = "text")
            => /\ textRun'.new
               /\ textRun'.calls = 1
               /\ textWrite' \in {"ok", "failed"}
               /\ textWrite' = "ok" <=>
                     \E r \in rows' \ rows : r.text_content = textRun'.content
       /\ (pc = "image" /\ pc' = "sleep" /\ firstRead'.now = "image")
            => LET img == imageRun'.content[1]
                   png == encode_png(img.bytes, img.width, img.height)
               IN  /\ imageRun'.new
                   /\ imageRun'.calls = IF png # None THEN 1 ELSE 0
                   /\ imageWrite' \in {"ok", "failed", "noencode"}
                   /\ imageWrite' = "noencode" <=> png = None
                   /\ imageWrite' = "ok" <=>
                         \E r \in rows' \ rows : r.content_data = png]_vars

\* the first text read in this run was inserted although a row of an earlier
\* run already held the same text
C18_Witness ==
    /\ firstRead.now = "text"
    /\ textWrite = "ok"
    /\ \E q, r \in rows :
          /\ q.id # r.id
          /\ q.text_content = textRun.content
          /\ r.text_content = textRun.content

\* C19: capture_region called with width 0 or height 0, or with an origin
\* left of, above, or at or past the right or bottom edge of the display,
\* returns an error and makes no GetImage request.
C19_RejectsBadRegion ==
    (/\ capture.called
     /\ \/ capture.w = 0
        \/ capture.h = 0
        \/ capture.x < 0
        \/ capture.y < 0
        \/ capture.x >= capture.screen_width
        \/ capture.y >= capture.screen_height)
      => (~capture.result.ok /\ ~capture.result.get_image)

\* a region of positive size whose origin is the first column past the display,
\* refused after the display was asked for its size
C19_Witness ==
    /\ capture.called
    /\ capture.w > 0
    /\ capture.h > 0
    /\ capture.y = 0
    /\ capture.x = capture.screen_width
    /\ capture.result.connected
    /\ ~capture.result.ok
    /\ ~capture.result.get_image

\* C20: a capture_region call that succeeds returns the width
\* min(w, screen_width - x) and the height min(h, screen_height - y); the region
\* returned lies within the display and has at least one pixel each way.
C20_ClampedDimensions ==
    (capture.called /\ capture.result.ok) =>
        /\ capture.result.width =
              IF capture.w <= capture.screen_width - capture.x
              THEN capture.w ELSE capture.screen_width - capture.x
        /\ capture.result.height =
              IF capture.h <= capture.screen_height - capture.y
              THEN capture.h ELSE capture.screen_height - capture.y
        /\ capture.x + capture.result.width <= capture.screen_width
        /\ capture.y + capture.result.height <= capture.screen_height
        /\ capture.result.width >= 1
        /\ capture.result.height >= 1

\* a request wider than what is left of the display, cut down to it, with the
\* height as asked
C20_Witness ==
    /\ capture.called
    /\ capture.result.ok
    /\ capture.x > 0
    /\ capture.result.width < capture.w
    /\ capture.result.height = capture.h
    /\ Len(capture.result.data) = capture.result.width * capture.result.height * 4

\* C12: at most one thread is inside a call on the clipboard handle, and a
\* thread inside one holds the clipboard mutex: the monitor in get_text and
\* get_image, the main loop thread in the set_image of a capture and in the
\* set_text or set_image of a restore.
C12_ClipboardSerialized ==
    /\ cb_lock \in {"none", "monitor", "ui"}
    /\ ~(MonitorInClipboard /\ UiInClipboard)
    /\ MonitorInClipboard => cb_lock = "monitor"
    /\ UiInClipboard => cb_lock = "ui"

\* the monitor reading the clipboard while a capture waits to write it
C12_Witness ==
    /\ MonitorInClipboard
    /\ cb_lock = "monitor"
    /\ ui_pc = "cb_wait"

\* C13: at most one of the monitor thread, the capture path and the clear
\* thread is inside a statement that writes the store, and it holds the store
\* mutex; no two rows share an id; an insert that returns Ok has added exactly
\* one row, with an id above every id in the store.
C13_WritersSerialized ==
    /\ [](/\ Cardinality({t \in {"monitor", "ui", "worker"} :
                            \/ (t = "monitor" /\ MonitorInWrite)
                            \/ (t = "ui" /\ UiInWrite)
                            \/ (t = "worker" /\ WorkerInWrite)}) <= 1
          /\ MonitorInWrite => db_lock = "monitor"
          /\ UiInWrite => db_lock = "ui"
          /\ WorkerInWrite => db_lock = "worker"
          /\ \A q, r \in rows : q.id = r.id => q = r)
    /\ [][(\/ (pc = "insert_text" /\ pc' # pc /\ textWrite' = "ok")
           \/ (pc = "insert_image" /\ pc' # pc /\ imageWrite' = "ok")
           \/ (ui_pc = "insert_image" /\ ui_pc' # ui_pc /\ uiWrite' = "ok"))
             => /\ rows \subseteq rows'
                /\ Cardinality(rows') = Cardinality(rows) + 1
                /\ \A r \in rows' \ rows : \A q \in rows : r.id > q.id]_vars

\* the capture path inside its insert while the monitor and the clear thread
\* both wait for the store mutex, with a row already in the store
C13_Witness ==
    /\ UiInWrite
    /\ db_lock = "ui"
    /\ pc \in {"text_db", "image_db"}
    /\ worker_pc = "db_wait"
    /\ rows # {}

\* C14: the main loop thread is never at a step of the capture pipeline: it
\* neither executes capture, encode, clipboard write and store insert nor
\* waits for the two mutexes on their behalf.
C14_CaptureOffUiThread == ui_pc \notin CapturePipeline

\* C25: clear_history(Some(T)) deletes exactly the rows of type T and
\* clear_history(None) every row; the other rows stay as they were and the
\* number returned is the number of rows deleted.
C25_ClearHistoryExact ==
    (call.op = "clear_history" /\ call.ok) =>
        LET gone == IF call.ct = None
                    THEN call.before
                    ELSE {r \in call.before : r.content_type = call.ct[1]}
        IN  /\ rows = call.before \ gone
            /\ call.count = Cardinality(gone)

\* the text rows cleared, an image row left
C25_Witness ==
    /\ call.op = "clear_history"
    /\ call.ok
    /\ call.ct = Some("text")
    /\ call.count > 0
    /\ \E r \in rows : r.content_type = "image"

\* C26: delete_entry(id) removes the row of that id and no other; without
\* such a row it returns Ok and changes nothing; get_entry(id) afterwards
\* returns none.
C26_DeleteEntryExact ==
    (call.op = "delete_entry" /\ call.ok) =>
        /\ rows = {r \in call.before : r.id # call.n}
        /\ (\A r \in call.before : r.id # call.n) => rows = call.before
        /\ get_entry(rows, call.n) = None

\* one of two rows deleted
C26_Witness ==
    /\ call.op = "delete_entry"
    /\ call.ok
    /\ Cardinality(call.before) = 2
    /\ Cardinality(rows) = 1

\* a delete_entry for an id the store does not hold
C26_AbsentWitness ==
    /\ call.op = "delete_entry"
    /\ call.ok
    /\ call.before # {}
    /\ rows = call.before

\* C27: right after a successful insert get_entry of the id returned gives the
\* content type and payload inserted; no step changes a row whose id stays in
\* the store; get_entry(id) returns the row of that id, field by field, and
\* none exactly when the store has no row of that id.
C27_InsertGetRoundTrip ==
    [][/\ (call' # call /\ call'.op = "insert_text" /\ call'.ok) =>
             LET e == get_entry(rows', call'.id)
             IN  /\ e # None
                 /\ e[1].id = call'.id
                 /\ e[1].content_type = "text"
                 /\ e[1].text_content = Some(call'.text)
                 /\ e[1].image_data = None
       /\ (call' # call /\ call'.op = "insert_image" /\ call'.ok) =>
             LET e == get_entry(rows', call'.id)
             IN  /\ e # None
                 /\ e[1].id = call'.id
                 /\ e[1].content_type = "image"
                 /\ e[1].image_data = Some(call'.png)
                 /\ e[1].thumbnail = Some(call'.thumb)
                 /\ e[1].text_content = None
       /\ \A r \in rows : (\E q \in rows' : q.id = r.id) => r \in rows'
       /\ (call' # call /\ call'.op = "get_entry" /\ call'.ok) =>
             /\ call'.entries = None <=> (\A r \in rows : r.id # call'.n)
             /\ call'.entries # None =>
                   \E r \in rows :
                      /\ r.id = call'.n
                      /\ call'.entries[1].id = r.id
                      /\ call'.entries[1].content_type = r.content_type
                      /\ call'.entries[1].image_data = r.content_data
                      /\ call'.entries[1].text_content = r.text_content
                      /\ call'.entries[1].thumbnail = r.thumbnail]_vars

\* get_entry of the second id returned an image with its thumbnail after the
\* row of the first id was deleted
C27_Witness ==
    /\ call.op = "get_entry"
    /\ call.n = 2
    /\ call.entries # None
    /\ call.entries[1].content_type = "image"
    /\ call.entries[1].thumbnail # None
    /\ Cardinality(rows) = 1

\* C28: get_recent_entries_by_type(limit, T) returns min(limit, number of rows
\* of type T) entries, each a different row of type T, and each at least as
\* recently created as every row of type T it did not return.
C28_RecentByType ==
    (call.op = "get_recent_entries_by_type" /\ call.ok) =>
        LET typed == {r \in call.before : r.content_type = call.ct[1]}
            es    == call.entries
            ids   == {es[i].id : i \in 1..Len(es)}
        IN  /\ Len(es) = IF call.n <= Cardinality(typed) THEN call.n ELSE Cardinality(typed)
            /\ Cardinality(ids) = Len(es)
            /\ \A i \in 1..Len(es) :
                  /\ es[i].content_type = call.ct[1]
                  /\ \E r \in typed : r.id = es[i].id /\ r.created_at = es[i].created_at
                  /\ \A r \in typed : r.id \notin ids => es[i].created_at >= r.created_at

\* limit 1 over two rows of the type: the newer one returned, though its id
\* is the lower
C28_Witness ==
    /\ call.op = "get_recent_entries_by_type"
    /\ call.ok
    /\ call.n = 1
    /\ Len(call.entries) = 1
    /\ \E r \in call.before :
          /\ r.content_type = call.ct[1]
          /\ r.id > call.entries[1].id
          /\ r.created_at < call.entries[1].created_at

\* C30: enforce_max_entries(max) on a store of at most max rows deletes
\* nothing.
C30_EnforceNoOp ==
    (call.op = "enforce_max_entries" /\ call.ok /\ Cardinality(call.before) <= call.n) =>
        rows = call.before

\* a store of exactly max rows, max above 0
C30_Witness ==
    /\ call.op = "enforce_max_entries"
    /\ call.ok
    /\ call.n > 0
    /\ Cardinality(call.before) = call.n
    /\ rows = call.before

\* C29: search_text never returns more than SearchLimit (50) entries; when
\* more rows match it returns SearchLimit of them, each a different matching
\* row and none older than a matching row left out.
C29_SearchCapped ==
    (call.op = "search_text" /\ call.ok) =>
        LET matches == SearchMatches(call.before, call.text)
            es      == call.entries
            ids     == {es[i].id : i \in 1..Len(es)}
        IN  /\ Len(es) <= SearchLimit
            /\ Cardinality(matches) > SearchLimit =>
                  /\ Len(es) = SearchLimit
                  /\ Cardinality(ids) = SearchLimit
                  /\ \A i \in 1..Len(es) :
                        /\ \E r \in matches :
                              r.id = es[i].id /\ r.created_at = es[i].created_at
                        /\ \A r \in matches :
                              r.id \notin ids => es[i].created_at >= r.created_at

\* more than SearchLimit rows matched and SearchLimit came back
C29_Witness ==
    /\ call.op = "search_text"
    /\ call.ok
    /\ Cardinality(SearchMatches(call.before, call.text)) > SearchLimit
    /\ Len(call.entries) = SearchLimit

\* C21 (as the specification states it): encode_png returns an error for
\* every buffer whose length differs from width * height * 4 and succeeds only
\* when it is equal.
C21_ExactLengthOnly ==
    (pipe.op = "encode_png" /\ Len(pipe.bytes) # pipe.width * pipe.height * 4) =>
        pipe.result = None

\* C22: create_thumbnail of a decodable w x h image and max_size m >= 1 gives
\* an image whose larger side is m and whose other side is within a pixel of
\* the side the ratio w : h asks for (and at least 1); bytes that do not
\* decode give an error.
C22_ThumbnailDimensions ==
    (pipe.op = "create_thumbnail") =>
        IF Decodable(pipe.bytes)
        THEN /\ pipe.result # None
             /\ LET tw == pipe.result[1][2]
                     th == pipe.result[1][3]
                 IN  /\ tw >= 1 /\ th >= 1
                     /\ IF tw >= th THEN tw = pipe.max_size ELSE th = pipe.max_size
                     /\ IF pipe.width >= pipe.height
                        THEN /\ tw = pipe.max_size
                             /\ Abs((th * pipe.width) - (pipe.height * pipe.max_size)) < pipe.width
                        ELSE /\ th = pipe.max_size
                             /\ Abs((tw * pipe.height) - (pipe.width * pipe.max_size)) < pipe.height
        ELSE pipe.result = None

\* a 3 x 2 image scaled up to 4 x 3
C22_Witness ==
    /\ pipe.op = "create_thumbnail"
    /\ pipe.width = 3
    /\ pipe.height = 2
    /\ pipe.result = Some(<<PngMagic, 4, 3>>)

\* bytes that do not decode
C22_UndecodableWitness ==
    /\ pipe.op = "create_thumbnail"
    /\ pipe.bytes = <<PngMagic, 1, 1>>
    /\ pipe.result = None

\* C23 (as the specification states it): a capture attempt past the size
\* guard ends with exactly one notification, the success one only when the
\* capture, the encoding, the clipboard write and the store insert all
\* succeeded, the failure one whenever any of them failed.
C23_OneCaptureNotification ==
    (attempt.op = "capture" /\ attempt.done) =>
        /\ Len(attempt.notes) = 1
        /\ attempt.notes[1] =
              IF attempt.captured /\ attempt.written /\ uiWrite = "ok"
              THEN "screenshot_success"
              ELSE "screenshot_error"

\* C24 (as the specification states it): a restore ends with exactly one
\* notification, the success one if and only if the content was written to
\* the clipboard, a failure one otherwise.
C24_OneRestoreNotification ==
    (attempt.op = "restore" /\ attempt.done) =>
        /\ Len(attempt.notes) = 1
        /\ attempt.notes[1] =
              IF attempt.written THEN "clipboard_restored" ELSE "restore_failed"

\* C31: an INSERT of a malformed row (content_type image without
\* content_data, content_type text without text_content, or any other
\* content_type) fails and leaves the table and sqlite_sequence as they were.
C31_MalformedRowRejected ==
    (call.op = "sql_insert") =>
        LET r == call.entries[1]
            malformed == \/ (r.content_type = "image" /\ r.content_data = None)
                         \/ (r.content_type = "text" /\ r.text_content = None)
                         \/ r.content_type \notin {"image", "text"}
        IN  /\ malformed => (~call.ok /\ rows = call.before)
            /\ call.ok => (~malformed /\ r \in rows)

\* an image row without content_data, its text column filled, refused by a
\* store that holds a row
C31_Witness ==
    /\ call.op = "sql_insert"
    /\ call.entries[1].content_type = "image"
    /\ call.entries[1].content_data = None
    /\ call.entries[1].text_content # None
    /\ ~call.ok
    /\ rows # {}
    /\ rows = call.before

\* C32: a row never changes: over every step, a row of the store is either
\* still in the store with every column as it was, or no row of its id is
\* left.
C32_RowsImmutable ==
    [][\A r \in rows : r \in rows' \/ (\A q \in rows' : q.id # r.id)]_vars

\* a cleanup that removed one row whole and kept an image row, thumbnail and
\* all
C32_Witness ==
    /\ call.op = "cleanup_old_entries"
    /\ call.ok
    /\ call.count = 1
    /\ \E r \in rows : r \in call.before /\ r.content_type = "image" /\ r.thumbnail # None

\* C33 (as the specification states it): bgra_to_rgba maps each pixel
\* (b, g, r, a) to (r, g, b, a) in place, and applied twice it returns the
\* buffer it was given, whatever the buffer.
C33_Original ==
    (pipe.op = "bgra_to_rgba") => bgra_to_rgba(pipe.result[1]) = pipe.bytes

\* C33: bgra_to_rgba maps the k-th complete pixel (b, g, r, a) to the k-th
\* pixel (r, g, b, a) and drops the bytes of an incomplete last pixel; for a
\* buffer whose length is a multiple of 4 the length is kept and applying it
\* twice returns the buffer.
C33_ChannelSwap ==
    (pipe.op = "bgra_to_rgba") =>
        LET in  == pipe.bytes
            out == pipe.result[1]
        IN  /\ Len(out) = 4 * (Len(in) \div 4)
            /\ \A k \in 0..((Len(in) \div 4) - 1) :
                  /\ out[(4 * k) + 1] = in[(4 * k) + 3]
                  /\ out[(4 * k) + 2] = in[(4 * k) + 2]
                  /\ out[(4 * k) + 3] = in[(4 * k) + 1]
                  /\ out[(4 * k) + 4] = in[(4 * k) + 4]
            /\ (Len(in) % 4 = 0) =>
                  /\ Len(out) = Len(in)
                  /\ bgra_to_rgba(out) = in

\* two whole pixels converted
C33_Witness ==
    /\ pipe.op = "bgra_to_rgba"
    /\ pipe.bytes = <<1, 2, 3, 4, 5, 6, 7, 8>>
    /\ pipe.result = Some(<<3, 2, 1, 4, 7, 6, 5, 8>>)

\* C34 (as the specification states it): the step that ends a monitor cycle
\* leaves the no-change counter at 0 if the cycle added at least one row to
\* the store, and otherwise one above its previous value (saturating); a cycle
\* whose store write failed adds one.
C34_CounterFollowsNewEntries ==
    [][(main_pc = "running" /\ pc = "image" /\ pc' = "sleep") =>
          no_change_count' =
              IF textWrite' = "ok" \/ imageWrite' = "ok"
              THEN 0
              ELSE IF no_change_count < NoChangeMax
                   THEN no_change_count + 1 ELSE NoChangeMax]_vars

\* C39: when the image check finds a new image that encode_png rejects, no
\* insert_image is made (the store and its id counter stay), the image slot
\* becomes that image's hash and the counter goes to 0; an image check that
\* reads the same image in the next cycle makes no attempt and changes
\* neither the store nor the slot.
C39_EncodeFailureMarksSeen ==
    [][(main_pc = "running" /\ pc = "image" /\ pc' = "sleep") =>
          /\ (imageWrite' = "noencode") =>
                /\ rows' = rows
                /\ seq' = seq
                /\ last_image_hash' = Some(calculate_hash(imageRun'.content[1].bytes))
                /\ no_change_count' = 0
          /\ (imageWrite = "noencode" /\ imageRun'.len = 2
                 /\ imageRun'.content = imageRun.content) =>
                /\ imageWrite' = "none"
                /\ rows' = rows
                /\ seq' = seq
                /\ last_image_hash' = last_image_hash]_vars

\* the cycle after an encode failure read the same image and skipped it: no
\* insert was tried in either cycle
C39_Witness ==
    /\ pc = "sleep"
    /\ imageRun.len = 2
    /\ imageRun.new
    /\ imageRun.calls = 0
    /\ imageWrite = "none"
    /\ last_image_hash = Some(calculate_hash(imageRun.content[1].bytes))
    /\ encode_png(imageRun.content[1].bytes, imageRun.content[1].width,
                  imageRun.content[1].height) = None

\* C35: the text check compares the text read with the text slot only, never
\* with the store: a text whose hash differs from the slot gets an
\* insert_text call, which on Ok adds one row holding the text even when the
\* store already has a row of that text, and the slot becomes its hash; a
\* text whose hash is the slot's gets no call.  So A, B, A read in successive
\* cycles give three calls and two rows of A.
C35_ComparesWithLastOnly ==
    [][(main_pc = "running" /\ pc = "text" /\ pc' = "image"
          /\ textRun'.content # None) =>
          LET text == textRun'.content[1]
              hash == calculate_hash(as_bytes(text))
          IN  IF last_text_hash # Some(hash)
              THEN /\ textWrite' \in {"ok", "failed"}
                   /\ last_text_hash' = Some(hash)
                   /\ textWrite' = "ok" =>
                         /\ Cardinality(rows') = Cardinality(rows) + 1
                         /\ \A r \in rows' \ rows : r.text_content = Some(text)
                         /\ rows \subseteq rows'
                   /\ textWrite' = "failed" => rows' = rows
              ELSE /\ textWrite' = "none"
                   /\ rows' = rows
                   /\ last_text_hash' = last_text_hash]_vars

\* three text rows in the order A, B, A, the third just written
C35_Witness ==
    /\ textWrite = "ok"
    /\ textRun.content = Some(<<"a">>)
    /\ textRun.len = 1
    /\ \E r1, r2, r3 \in rows :
          /\ r1.id < r2.id
          /\ r2.id < r3.id
          /\ r1.text_content = Some(<<"a">>)
          /\ r2.text_content = Some(<<"b">>)
          /\ r3.text_content = Some(<<"a">>)
          /\ calculate_hash(as_bytes(<<"a">>)) # calculate_hash(as_bytes(<<"b">>))

C40_CleanupWitness ==
    /\ main_pc = "running"
    /\ config.auto_cleanup
    /\ Cardinality(rows) < seq
    /\ Cardinality(rows) <= config.max_entries

\* the lock a thread stands in front of and cannot take now
MonitorBlocked ==
    \/ pc = "sleep" /\ ~LockClipboard(cb_lock)
    \/ pc \in {"text_db", "image_db"} /\ ~LockDb(db_lock)

UiBlocked ==
    \/ ui_pc \in {"cb_wait", "restore_wait"} /\ ~LockClipboard(cb_lock)
    \/ ui_pc \in {"db_wait", "populate_wait"} /\ ~LockDb(db_lock)

WorkerBlocked == worker_pc = "db_wait" /\ ~LockDb(db_lock)

C36_PopulateWitness ==
    /\ db_lock = "ui"
    /\ ui_pc = "populate"
    /\ cb_lock = "monitor"
    /\ MonitorBlocked
    /\ WorkerBlocked

\* the image rows of R whose PNG is that of the captured image
CaptureRows(R) ==
    {r \in R : /\ r.content_type = "image"
               /\ r.content_data =
                     encode_png(CapturedImage.bytes, CapturedImage.width,
                                CapturedImage.height)}

\* the monitor's insert_image for the captured image returns, after a capture
\* that wrote the clipboard and whose row is the one such row in the store
MonitorStoresCapture ==
    /\ pc = "insert_image"
    /\ pc' = "sleep"
    /\ imageRun.content = Some(CapturedImage)
    /\ attempt.op = "capture"
    /\ attempt.written
    /\ uiWrite = "ok"
    /\ Cardinality(CaptureRows(rows)) = 1

\* C37 as stated: after a successful capture, the monitor's cycle that reads
\* the captured image as new leaves two image rows of it in the store.
C37_Original ==
    [][MonitorStoresCapture => Cardinality(CaptureRows(rows')) = 2]_vars

\* C37: no step of the capture pipeline changes the last image hash, and its
\* insert_image adds one image row of the captured image when it returns Ok;
\* a monitor cycle that reads the captured image calls insert_image exactly
\* when the image's hash differs from the last image hash, and that call adds
\* a second image row of it when the write succeeds and none when it fails.
C37_CaptureStoredTwice ==
    [][/\ (ui_pc' # ui_pc /\ ui_pc \in CapturePipeline) =>
             /\ last_image_hash' = last_image_hash
             /\ last_text_hash' = last_text_hash
       /\ (ui_pc = "insert_image" /\ ui_pc' = "idle") =>
             IF uiWrite' = "ok"
             THEN /\ rows \subseteq rows'
                  /\ Cardinality(rows') = Cardinality(rows) + 1
                  /\ Cardinality(CaptureRows(rows')) = Cardinality(CaptureRows(rows)) + 1
             ELSE rows' = rows
       /\ (pc = "get_image" /\ pc' # pc /\ imageRun'.content = Some(CapturedImage)) =>
             /\ (pc' = "image_db") =
                   (last_image_hash # Some(calculate_hash(CapturedImage.bytes)))
             /\ rows' = rows
       /\ MonitorStoresCapture =>
             IF imageWrite' = "ok"
             THEN /\ rows \subseteq rows'
                  /\ Cardinality(CaptureRows(rows')) = 2
                  /\ \A r \in rows' \ rows : \A q \in rows : r.id > q.id
             ELSE rows' = rows]_vars

\* one capture, two image rows: the capture's write and the monitor's write
\* both returned Ok and the store holds two rows of the captured image
C37_Witness ==
    /\ attempt.op = "capture"
    /\ attempt.written
    /\ attempt.done
    /\ uiWrite = "ok"
    /\ imageWrite = "ok"
    /\ imageRun.content = Some(CapturedImage)
    /\ pc = "sleep"
    /\ Cardinality(CaptureRows(rows)) = 2

\* the monitor's insert_text returns for a text that a row of the store
\* holds, after a restore that wrote the clipboard
MonitorStoresRestored ==
    /\ pc = "insert_text"
    /\ pc' = "get_image"
    /\ attempt.op = "restore"
    /\ attempt.written
    /\ \E r \in rows : r.text_content = textRun.content

\* C38 as stated: the monitor's cycle that reads restored content whose hash
\* differs from the last hash adds a row.
C38_Original ==
    [][MonitorStoresRestored => Cardinality(rows') = Cardinality(rows) + 1]_vars

\* C38: no step of a restore changes the store or the last hashes; a monitor
\* cycle that reads a content calls the channel's insert exactly when the
\* content's hash differs from the channel's last hash, and that call adds
\* one row with an id above every id given so far when the write succeeds and
\* no row when it fails; with an equal hash the store is left as it is.
C38_RestoredContentStoredAgain ==
    [][/\ (ui_pc' # ui_pc /\ (ui_pc' = "restore_wait"
                                \/ ui_pc \in {"restore_wait", "restore_set"})) =>
             /\ rows' = rows
             /\ seq' = seq
             /\ last_text_hash' = last_text_hash
             /\ last_image_hash' = last_image_hash
       /\ (pc = "get_text" /\ pc' # pc /\ textRun'.content # None) =>
             /\ (pc' = "text_db") =
                   (last_text_hash #
                       Some(calculate_hash(as_bytes(textRun'.content[1]))))
             /\ rows' = rows
       /\ (pc = "get_image" /\ pc' # pc /\ imageRun'.content # None) =>
             /\ (pc' = "image_db") =
                   (last_image_hash #
                       Some(calculate_hash(imageRun'.content[1].bytes)))
             /\ rows' = rows
       /\ (pc = "insert_text" /\ pc' # pc) =>
             IF textWrite' = "ok"
             THEN /\ rows \subseteq rows'
                  /\ Cardinality(rows') = Cardinality(rows) + 1
                  /\ \A r \in rows' \ rows :
                        /\ r.text_content = textRun.content
                        /\ r.id = seq'
                        /\ r.id > seq
             ELSE rows' = rows /\ seq' = seq
       /\ (pc = "insert_image" /\ pc' # pc) =>
             IF imageWrite' = "ok"
             THEN /\ rows \subseteq rows'
                  /\ Cardinality(rows') = Cardinality(rows) + 1
                  /\ \A r \in rows' \ rows :
                        /\ r.content_type = "image"
                        /\ r.id = seq'
                        /\ r.id > seq
             ELSE rows' = rows /\ seq' = seq]_vars

\* a restore wrote the clipboard and the monitor stored the text again: two
\* rows of one text under different ids
C38_Witness ==
    /\ attempt.op = "restore"
    /\ attempt.written
    /\ attempt.done
    /\ textWrite = "ok"
    /\ \E r, q \in rows :
          /\ r.id < q.id
          /\ q.id = seq
          /\ r.text_content = textRun.content
          /\ q.text_content = textRun.content
          /\ r.content_type = "text"

\* a restore wrote the clipboard and the monitor, whose last text hash is that
\* of the text it read, added nothing
C38_EqualWitness ==
    /\ attempt.op = "restore"
    /\ attempt.written
    /\ attempt.done
    /\ pc = "get_image"
    /\ textWrite = "none"
    /\ textRun.content # None
    /\ last_text_hash = Some(calculate_hash(as_bytes(textRun.content[1])))
    /\ Cardinality(rows) = 1
    /\ \E r \in rows : r.text_content = textRun.content

====
